---- MODULE Spec2Model ----
(***************************************************************************)
(* Model of my-manga-recap: the checkpointed stage runner of main.py, the  *)
(* timing allocation of modules/video_gen.py, the page catalog of          *)
(* modules/ocr.py, the chapter downloads of modules/manga_scraper.py, the  *)
(* provider selection of src/main.py and modules/ocr_provider.py, the      *)
(* worker pool of src/utils/batch_processor.py and the result cache of     *)
(* src/utils/cache.py.                                                     *)
(*                                                                         *)
(* Eight specifications share the module:                                  *)
(*   Spec        the stage runner: invocations of main() over the files of *)
(*               the temp directory (checkpoint file, stage artifacts);    *)
(*   TimingSpec  the timing plan create_video computes and its             *)
(*               reconciliation with the audio, over bounded inputs        *)
(*               (script lines, image count, audio duration);              *)
(*   CatalogSpec the page catalog extract_text_from_chapter builds and the *)
(*               images create_video collects from it;                     *)
(*   ScraperSpec download_chapters: its checkpoint, its batches and the    *)
(*               futures of a batch completing in any order;               *)
(*   ProviderSpec the choice of the AI provider and the fallback chain of  *)
(*               OCRManager.extract_text;                                  *)
(*   BatchSpec   BatchProcessor: the client thread (start, add_task,       *)
(*               process_batch, stop) interleaved with the worker threads; *)
(*   BatchFairSpec  BatchSpec where every thread that can run does run;    *)
(*   CacheSpec   Cache.get, Cache.set and a @cached function on the entry  *)
(*               of one key as the clock advances.                         *)
(***************************************************************************)
EXTENDS Integers, Sequences, FiniteSets, TLC

VARIABLES
    pc,           \* position of main(): "idle", a stage, "done", "failed"
    force,        \* args.force of the current invocation
    checkpoint,   \* main's local `checkpoint` dict, by its last_step
    cpFile,       \* video_checkpoint.json on disk
    art,          \* artifact file of each stage on disk
    startFile,    \* cpFile as it was when the invocation started
    startArt,     \* art as it was when the invocation started
    ran,          \* stages whose else-branch (execution) was entered
    skipped,      \* stages whose if-branch (load saved) was entered
    saveFailed,   \* stages whose save_checkpoint hit an exception
    failedStage,  \* stage in which the invocation aborted, or "none"
    afterComplete, \* the invocation started right after one that returned
    written,      \* stages whose artifact file the invocation opened for writing
    content,      \* chapter_texts.json lists at least one page with content
    tpc,          \* position of create_video's timing computation
    script,       \* create_video's script argument, as a sequence of lines
    nImages,      \* len(all_images)
    total_duration, \* audio.duration, a rational
    image_duration, \* the image_duration argument: NoneVal or a rational
    timings,      \* the timings list, a sequence of rationals
    segment_images, \* num_images of each segment of the loop at :141-148
    clips,        \* durations of the clips list, one per zipped image
    video_duration, \* video.duration after the reconciliation
    shown,        \* display time of each clip in the final video
    prepared,     \* what _prepare_clip returned for each zipped image
    timings_again, \* the timings list of a second call with the same arguments
    cpc,          \* position of the page catalog: OCR stage, image collection
    chapter_dirs, \* the chapter directories: file name -> file, per chapter
    chapter_data, \* the catalog the OCR stage builds (chapter_texts.json)
    ocr_data,     \* what _load_ocr_data returned to create_video
    all_images,   \* create_video's all_images: <<chapter, file name>> pairs
    spc,          \* position of download_chapters
    chapter_count, \* len(chapter_links)
    download_ok,  \* what download_chapter_images returns for each chapter
    sfile,        \* the scraper's checkpoint file on disk
    last_completed, \* download_chapters' local last_completed
    loaded_last,  \* last_completed as loaded from the checkpoint
    chapters_to_download, \* the sorted chapter indexes of this run
    batch_start,  \* the loop variable i of download_chapters
    new_failed_chapters, \* download_chapters' local of that name
    total_successful, \* download_chapters' local of that name
    pending,      \* chapters of the batch whose future has not completed
    successful_chapters, \* _download_chapter_batch's list, in completion order
    downloaded,   \* chapters some download_chapter_images call has fetched
    reported,     \* final summary of the last call: "none", "all", "failed"
    ppc,          \* position of the provider selection
    available,    \* is_available of each AI provider of MangaRecap
    provider,     \* MangaRecap.provider, by name
    provider_name, \* the provider_name argument of OCRManager
    ocr_providers, \* OCRManager.providers, by name, in list order
    ocr_outputs,  \* what each OCR provider does on the image
    ocr_text,     \* what OCRManager.extract_text returned or raised
    bpc,          \* position of the thread that calls the BatchProcessor
    max_workers,  \* BatchProcessor.max_workers
    queue_size,   \* BatchProcessor.queue_size
    running,      \* BatchProcessor.running
    task_queue,   \* BatchProcessor.task_queue: task ids, 0 for None
    result_queue, \* BatchProcessor.result_queue
    workers,      \* position and task of each worker thread
    tasks,        \* the ids of the batch given to process_batch
    to_add,       \* the tasks of the batch not yet put on the queue
    results,      \* the results dict of process_batch
    next_id,      \* number of tasks created so far
    nones_put,    \* number of None entries stop has put
    clock,        \* time.time(), in seconds
    ticks,        \* number of times the clock has advanced
    cache_files,  \* the file <key>.json of the cache directory, per key
    last_set,     \* the last call of Cache.set for each key: time and value
    cache_op,     \* the last cache operation: its name, key and time
    set_before,   \* last_set of that key as it was when the operation began
    cache_result, \* what the operation returned
    func_executed \* whether the @cached wrapper called the function

pipeVars == <<pc, force, checkpoint, cpFile, art, startFile, startArt,
              ran, skipped, saveFailed, failedStage, written, content,
              afterComplete>>
timingVars == <<tpc, script, nImages, total_duration, image_duration, timings,
                segment_images, clips, video_duration, shown, prepared,
                timings_again>>
catalogVars == <<cpc, chapter_dirs, chapter_data, ocr_data, all_images>>
scraperVars == <<spc, chapter_count, download_ok, sfile, last_completed,
                 loaded_last, chapters_to_download, batch_start,
                 new_failed_chapters, total_successful, pending,
                 successful_chapters, downloaded, reported>>
providerVars == <<ppc, available, provider, provider_name, ocr_providers,
                  ocr_outputs, ocr_text>>
batchVars == <<bpc, max_workers, queue_size, running, task_queue,
               result_queue, workers, tasks, to_add, results, next_id,
               nones_put>>
cacheVars == <<clock, ticks, cache_files, last_set, cache_op, set_before,
               cache_result, func_executed>>
vars == <<pc, force, checkpoint, cpFile, art, startFile, startArt,
          ran, skipped, saveFailed, failedStage, written, content,
          afterComplete,
          tpc, script, nImages, total_duration, image_duration, timings,
          segment_images, clips, video_duration, shown, prepared,
          timings_again,
          cpc, chapter_dirs, chapter_data, ocr_data, all_images,
          spc, chapter_count, download_ok, sfile, last_completed, loaded_last,
          chapters_to_download, batch_start, new_failed_chapters,
          total_successful, pending, successful_chapters, downloaded,
          reported,
          ppc, available, provider, provider_name, ocr_providers,
          ocr_outputs, ocr_text,
          bpc, max_workers, queue_size, running, task_queue, result_queue,
          workers, tasks, to_add, results, next_id, nones_put,
          clock, ticks, cache_files, last_set, cache_op, set_before,
          cache_result, func_executed>>

\* The scraper's checkpoint file: absent, truncated, or a complete record.
NoCheckpointFile == [st |-> "absent", last |-> 0, failed |-> <<>>]

\* Python's None as a cached value.
NoneValue == [kind |-> "none", n |-> 0]

\* Cache.set has not been called for a key.
NoSet == [called |-> FALSE, time |-> 0, val |-> NoneValue]

\* No cache operation has been called.
NoCacheOp == [name |-> "none", key |-> 0, time |-> 0]

\* No call of OCRManager.extract_text has returned.
NoText == [raised |-> FALSE, text |-> ""]

(***************************************************************************)
(* Stage runner: main.py                                                   *)
(***************************************************************************)

\* The four steps of main(), in the order main() runs them.
Stage == {"ocr", "scripts", "audio", "video"}

\* A file on disk: missing, truncated by an interrupted write, or complete.
FileState == {"absent", "partial", "ok"}

\* video_checkpoint.json: missing, not parseable, or a complete record,
\* represented by its last_step.
CheckpointFileState == {"absent", "partial"} \cup Stage

\* checkpoint.get("last_step") of the empty dict.
NoStep == "none"

\* load_checkpoint with a parser that accepts a truncated record.
load_checkpointLenient(file) ==
    IF file = "absent" THEN NoStep
    ELSE IF file = "partial" THEN "video"
    ELSE file

\* load_checkpoint that takes an unreadable record for that of the first
\* step.
load_checkpointFirstStep(file) ==
    IF file = "absent" THEN NoStep
    ELSE IF file = "partial" THEN "ocr"
    ELSE file

\* load_checkpoint: the record when the file exists and json.load succeeds,
\* {} when the file is missing or json.load raises.
load_checkpoint(file) ==
    IF file = "absent" THEN NoStep
    ELSE IF file = "partial" THEN NoStep
    ELSE file

\* The checkpoint is loaded whatever args.force is.
InitialCheckpointIgnoreForce(f, file) == load_checkpoint(file)

\* main.py:100  checkpoint = {} if args.force else load_checkpoint(args.temp)
InitialCheckpoint(f, file) ==
    IF f THEN NoStep ELSE load_checkpoint(file)

\* os.path.exists of an artifact file.
Exists(a, s) == a[s] # "absent"

\* A test for equality with the step's own name instead of membership.
SkipOcrOwnNameOnly(cp, a) ==
    cp = "ocr" /\ Exists(a, "ocr")

\* main.py:120
SkipOcr(cp, a) ==
    cp \in {"ocr", "scripts", "audio", "video"} /\ Exists(a, "ocr")

\* The step's skip test without os.path.exists.
SkipScriptsNoExists(cp, a) ==
    cp \in {"scripts", "audio", "video"}

\* The step's skip test with only its own name in the list.
SkipScriptsOwnNameOnly(cp, a) ==
    cp = "scripts" /\ Exists(a, "scripts")

\* main.py:156
SkipScripts(cp, a) ==
    cp \in {"scripts", "audio", "video"} /\ Exists(a, "scripts")

\* The step's skip test with the list of the previous step.
SkipAudioWiderList(cp, a) ==
    cp \in {"scripts", "audio", "video"} /\ Exists(a, "audio")

\* main.py:179
SkipAudio(cp, a) ==
    cp \in {"audio", "video"} /\ Exists(a, "audio")

\* main.py:192
\* The video step testing for a step name save_checkpoint never writes.
SkipVideoWrongName(cp, a) ==
    cp = "done" /\ Exists(a, "video")

SkipVideo(cp, a) ==
    cp = "video" /\ Exists(a, "video")

\* What save_checkpoint can do to the file.
\*   "ok"         the record is written and the file closed;
\*   "open_fail"  open() raises: the file is untouched, the exception is
\*                caught and printed;
\*   "write_fail" open() truncated the file and json.dump raises: the file is
\*                left truncated, the exception is caught and printed;
\*   "crash"      the process dies between open() and the end of json.dump.
SaveOutcome == {"ok", "open_fail", "write_fail", "crash"}

\* The last_step of the record save_checkpoint builds (main.py:38-42).
checkpoint_data(step) == step

\* save_checkpoint that reports success without writing the record.
save_checkpointNoWrite(file, step, outcome) ==
    CASE outcome = "ok" -> file
      [] outcome = "open_fail" -> file
      [] outcome = "write_fail" -> "partial"
      [] outcome = "crash" -> "partial"

\* The checkpoint file after save_checkpoint(temp, step, data).
save_checkpoint(file, step, outcome) ==
    CASE outcome = "ok" -> checkpoint_data(step)
      [] outcome = "open_fail" -> file
      [] outcome = "write_fail" -> "partial"
      [] outcome = "crash" -> "partial"

\* delete_checkpoint removes the file. main() never calls it.
delete_checkpoint(file) == "absent"

\* What the body of a stage can do before its save_checkpoint.
\*   "ok"      the stage's call returns and its artifact is written;
\*   "raise"   the call raises before the artifact file is opened;
\*   "partial" the artifact write is interrupted (exception or crash).
RunOutcome == {"ok", "raise", "partial"}

NotRunning == pc \in {"idle", "done", "failed"}

\* main.py:84-116: parse the arguments, load the checkpoint, discover the
\* chapter directories (ValueError when there is none).
Start ==
    /\ NotRunning
    /\ \E f \in BOOLEAN, found \in BOOLEAN :
        /\ force' = f
        /\ checkpoint' = InitialCheckpoint(f, cpFile)
        /\ pc' = IF found THEN "ocr" ELSE "failed"
    /\ startFile' = cpFile
    /\ startArt' = art
    /\ ran' = {}
    /\ skipped' = {}
    /\ saveFailed' = {}
    /\ failedStage' = "none"
    /\ written' = {}
    /\ afterComplete' = (pc = "done" /\ \A s \in Stage : art[s] # "absent")
    /\ UNCHANGED <<cpFile, art, content>>
    /\ UNCHANGED timingVars
    /\ UNCHANGED catalogVars
    /\ UNCHANGED scraperVars
    /\ UNCHANGED providerVars
    /\ UNCHANGED batchVars
    /\ UNCHANGED cacheVars

\* An if-branch that writes the artifact back after loading it.
SkipBranchWritesBack(s, loads, next) ==
    /\ skipped' = skipped \cup {s}
    /\ IF loads /\ art[s] = "partial"
       THEN pc' = "failed" /\ failedStage' = s
       ELSE pc' = next /\ failedStage' = failedStage
    /\ written' = written \cup {s}
    /\ UNCHANGED <<force, checkpoint, cpFile, art, startFile, startArt,
                   ran, saveFailed, content, afterComplete>>

\* The if-branch of a step: the saved artifact is loaded (opened "r"), never
\* written. json.load raises on a truncated file; loads is FALSE for the
\* steps that load nothing.
SkipBranch(s, loads, next) ==
    /\ skipped' = skipped \cup {s}
    /\ IF loads /\ art[s] = "partial"
       THEN pc' = "failed" /\ failedStage' = s
       ELSE pc' = next /\ failedStage' = failedStage
    /\ UNCHANGED <<force, checkpoint, cpFile, art, startFile, startArt,
                   ran, saveFailed, written, content, afterComplete>>

\* The test of video_gen.py:106 that never finds the list empty.
NoContentImagesNeverEmpty(c) == FALSE

\* video_gen.py:106  if not all_images: no page listed in chapter_texts.json
\* has content
NoContentImages(c) == ~c

\* What a stage's call can do: create_video raises ValueError before any
\* rendering when no image has content (video_gen.py:106-107).
StageOutcomes(s, c) ==
    IF s = "video" /\ NoContentImages(c) THEN {"raise"} ELSE RunOutcome

\* An else-branch that saves the checkpoint before the artifact is written.
RunBranchSavesFirst(s, next) ==
    /\ ran' = ran \cup {s}
    /\ \E r \in StageOutcomes(s, content) :
        \/ /\ r = "raise"
           /\ pc' = "failed" /\ failedStage' = s
           /\ UNCHANGED <<cpFile, art, saveFailed, written, content>>
        \/ /\ r = "partial"
           /\ cpFile' = save_checkpoint(cpFile, s, "ok")
           /\ art' = [art EXCEPT ![s] = "partial"]
           /\ written' = written \cup {s}
           /\ content' = IF s = "ocr" THEN FALSE ELSE content
           /\ pc' = "failed" /\ failedStage' = s
           /\ UNCHANGED saveFailed
        \/ /\ r = "ok"
           /\ art' = [art EXCEPT ![s] = "ok"]
           /\ written' = written \cup {s}
           /\ IF s = "ocr" THEN content' \in BOOLEAN ELSE content' = content
           /\ \E o \in SaveOutcome :
                /\ cpFile' = save_checkpoint(cpFile, s, o)
                /\ saveFailed' = IF o = "ok" THEN saveFailed
                                 ELSE saveFailed \cup {s}
                /\ IF o = "crash"
                   THEN pc' = "failed" /\ failedStage' = s
                   ELSE pc' = next /\ failedStage' = failedStage
    /\ UNCHANGED <<force, checkpoint, startFile, startArt, skipped,
                   afterComplete>>

\* The else-branch of a step: the stage's call, the write of its artifact,
\* then save_checkpoint(args.temp, s, ...). The OCR step writes the page
\* catalog, with or without a page that has content.
RunBranch(s, next) ==
    /\ ran' = ran \cup {s}
    /\ \E r \in StageOutcomes(s, content) :
        \/ /\ r = "raise"
           /\ pc' = "failed" /\ failedStage' = s
           /\ UNCHANGED <<cpFile, art, saveFailed, written, content>>
        \/ /\ r = "partial"
           /\ art' = [art EXCEPT ![s] = "partial"]
           /\ written' = written \cup {s}
           /\ content' = IF s = "ocr" THEN FALSE ELSE content
           /\ pc' = "failed" /\ failedStage' = s
           /\ UNCHANGED <<cpFile, saveFailed>>
        \/ /\ r = "ok"
           /\ art' = [art EXCEPT ![s] = "ok"]
           /\ written' = written \cup {s}
           /\ IF s = "ocr" THEN content' \in BOOLEAN ELSE content' = content
           /\ \E o \in SaveOutcome :
                /\ cpFile' = save_checkpoint(cpFile, s, o)
                /\ saveFailed' = IF o = "ok" THEN saveFailed
                                 ELSE saveFailed \cup {s}
                /\ IF o = "crash"
                   THEN pc' = "failed" /\ failedStage' = s
                   ELSE pc' = next /\ failedStage' = failedStage
    /\ UNCHANGED <<force, checkpoint, startFile, startArt, skipped,
                   afterComplete>>

\* main.py:118-152
OcrStep ==
    /\ pc = "ocr"
    /\ IF SkipOcr(checkpoint, art)
       THEN SkipBranch("ocr", TRUE, "scripts")
       ELSE RunBranch("ocr", "scripts")
    /\ UNCHANGED timingVars
    /\ UNCHANGED catalogVars
    /\ UNCHANGED scraperVars
    /\ UNCHANGED providerVars
    /\ UNCHANGED batchVars
    /\ UNCHANGED cacheVars

\* main.py:154-175
ScriptsStep ==
    /\ pc = "scripts"
    /\ IF SkipScripts(checkpoint, art)
       THEN SkipBranch("scripts", TRUE, "audio")
       ELSE RunBranch("scripts", "audio")
    /\ UNCHANGED timingVars
    /\ UNCHANGED catalogVars
    /\ UNCHANGED scraperVars
    /\ UNCHANGED providerVars
    /\ UNCHANGED batchVars
    /\ UNCHANGED cacheVars

\* main.py:177-189
AudioStep ==
    /\ pc = "audio"
    /\ IF SkipAudio(checkpoint, art)
       THEN SkipBranch("audio", FALSE, "video")
       ELSE RunBranch("audio", "video")
    /\ UNCHANGED timingVars
    /\ UNCHANGED catalogVars
    /\ UNCHANGED scraperVars
    /\ UNCHANGED providerVars
    /\ UNCHANGED batchVars
    /\ UNCHANGED cacheVars

\* main.py:191-220: the video step, then the final report; main returns.
VideoStep ==
    /\ pc = "video"
    /\ IF SkipVideo(checkpoint, art)
       THEN SkipBranch("video", FALSE, "done")
       ELSE RunBranch("video", "done")
    /\ UNCHANGED timingVars
    /\ UNCHANGED catalogVars
    /\ UNCHANGED scraperVars
    /\ UNCHANGED providerVars
    /\ UNCHANGED batchVars
    /\ UNCHANGED cacheVars

\* Between invocations the user may remove a file of the temp directory
\* (the resume rule of main() tests os.path.exists for this reason).
RemoveArtifact ==
    /\ NotRunning
    /\ \E s \in Stage :
        /\ art[s] # "absent"
        /\ art' = [art EXCEPT ![s] = "absent"]
        /\ content' = IF s = "ocr" THEN FALSE ELSE content
    /\ UNCHANGED <<pc, force, checkpoint, cpFile, startFile, startArt,
                   ran, skipped, saveFailed, failedStage, written,
                   afterComplete>>
    /\ UNCHANGED timingVars
    /\ UNCHANGED catalogVars
    /\ UNCHANGED scraperVars
    /\ UNCHANGED providerVars
    /\ UNCHANGED batchVars
    /\ UNCHANGED cacheVars

(***************************************************************************)
(* Rational numbers: the float quantities of video_gen.py, kept exact.     *)
(* [n |-> numerator, d |-> denominator], d > 0, in lowest terms.           *)
(***************************************************************************)

RECURSIVE Gcd(_, _)
Gcd(a, b) == IF b = 0 THEN a ELSE Gcd(b, a % b)

Abs(x) == IF x < 0 THEN -x ELSE x

Rat(n, d) ==
    LET g == Gcd(Abs(n), d)
    IN  IF n = 0 THEN [n |-> 0, d |-> 1] ELSE [n |-> n \div g, d |-> d \div g]

RInt(k) == [n |-> k, d |-> 1]
RAdd(x, y) == Rat(x.n * y.d + y.n * x.d, x.d * y.d)
RSub(x, y) == Rat(x.n * y.d - y.n * x.d, x.d * y.d)
RMul(x, y) == Rat(x.n * y.n, x.d * y.d)
\* x / k for an integer k > 0
RDivInt(x, k) == Rat(x.n, x.d * k)
RLe(x, y) == x.n * y.d <= y.n * x.d
RLt(x, y) == x.n * y.d < y.n * x.d
RMax(x, y) == IF RLe(x, y) THEN y ELSE x
RMin(x, y) == IF RLe(x, y) THEN x ELSE y
RAbs(x) == [n |-> Abs(x.n), d |-> x.d]

RECURSIVE RSum(_)
RSum(seq) == IF seq = <<>> THEN RInt(0) ELSE RAdd(Head(seq), RSum(Tail(seq)))

RECURSIVE SumSeq(_)
SumSeq(seq) == IF seq = <<>> THEN 0 ELSE Head(seq) + SumSeq(Tail(seq))

\* [x] * k
Repeat(x, k) == [i \in 1..k |-> x]

(***************************************************************************)
(* Timing allocation: modules/video_gen.py                                 *)
(***************************************************************************)

MaxLines == 3
MaxWords == 2
MaxImages == 3
\* audio durations go up to MaxDuration half seconds
MaxDuration == 6
MaxImageDuration == 2

\* The image_duration argument when it is None: no rational has d = 0.
NoneVal == [n |-> 0, d |-> 0]

\* A line of the script after line.strip():
\*   "pause"   starts with '[PAUSA';
\*   "marker"  starts with '[' otherwise (an image marker, a chapter tag);
\*   "blank"   empty;
\*   "text"    anything else, with its number of words (at least one).
Line ==
    {[kind |-> k, words |-> 0] : k \in {"pause", "marker", "blank"}}
    \cup {[kind |-> "text", words |-> w] : w \in 1..MaxWords}

RECURSIVE SeqsUpTo(_, _)
SeqsUpTo(S, k) ==
    IF k = 0 THEN {<<>>}
    ELSE LET shorter == SeqsUpTo(S, k - 1)
         IN  shorter \cup {Append(q, x) : q \in shorter, x \in S}

\* video_gen.py:16-27: the segments of the script, each by its word count
\* len(seg.split()); cur is the word count of current_text (0: empty).
RECURSIVE SegmentWords(_, _, _)
SegmentWords(lines, cur, segments) ==
    IF lines = <<>>
    THEN IF cur > 0 THEN Append(segments, cur) ELSE segments
    ELSE LET line == Head(lines)
         IN  IF line.kind = "pause"
             THEN IF cur > 0
                  THEN SegmentWords(Tail(lines), 0, Append(segments, cur))
                  ELSE SegmentWords(Tail(lines), cur, segments)
             ELSE IF line.kind = "text"
                  THEN SegmentWords(Tail(lines), cur + line.words, segments)
                  ELSE SegmentWords(Tail(lines), cur, segments)

\* video_gen.py:43  minimum 0.5s per segment
MinSegment == [n |-> 1, d |-> 2]

\* The proportional share of a segment without the 0.5s minimum.
SegmentTimingNoFloor(length, total_words, total) ==
    RDivInt(RMul(RInt(length), total), total_words)

\* video_gen.py:42-43  the duration of one segment
SegmentTiming(length, total_words, total) ==
    RMax(RDivInt(RMul(RInt(length), total), total_words), MinSegment)

\* video_gen.py:10-45
_calculate_text_timing(lines, total) ==
    LET text_lengths == SegmentWords(lines, 0, <<>>)
        total_words == SumSeq(text_lengths)
    IN  IF text_lengths = <<>> THEN <<>>
        ELSE IF total_words = 0
             THEN Repeat(RDivInt(total, Len(text_lengths)), Len(text_lengths))
             ELSE [i \in 1..Len(text_lengths) |->
                      SegmentTiming(text_lengths[i], total_words, total)]

\* The extra image given while i <= remainder: one segment too many.
NumImagesOffByOne(i, images_per_segment, remainder) ==
    images_per_segment + (IF i <= remainder THEN 1 ELSE 0)

\* The remainder of the division left out.
NumImagesNoRemainder(i, images_per_segment, remainder) ==
    images_per_segment

\* Every segment given at least one image.
NumImagesAtLeastOne(i, images_per_segment, remainder) ==
    IF images_per_segment + (IF i < remainder THEN 1 ELSE 0) > 0
    THEN images_per_segment + (IF i < remainder THEN 1 ELSE 0)
    ELSE 1

\* video_gen.py:143  number of images of the segment at 0-based index i
NumImages(i, images_per_segment, remainder) ==
    images_per_segment + (IF i < remainder THEN 1 ELSE 0)

\* The segment's duration given to each of its images, undivided.
ImgDurationUndivided(segment_duration, num_images) == segment_duration

\* video_gen.py:146  display time of one image of a segment
ImgDuration(segment_duration, num_images) ==
    RDivInt(segment_duration, num_images)

\* video_gen.py:141-148: the loop over the segments from index i (1-based)
RECURSIVE SegmentLoop(_, _, _, _, _)
SegmentLoop(text_timings, i, images_per_segment, remainder, acc) ==
    IF i > Len(text_timings) THEN acc
    ELSE LET num_images == NumImages(i - 1, images_per_segment, remainder)
             entries == IF num_images > 0
                        THEN Repeat(ImgDuration(text_timings[i], num_images),
                                    num_images)
                        ELSE <<>>
         IN  SegmentLoop(text_timings, i + 1, images_per_segment, remainder,
                         acc \o entries)

\* Fixed duration mode without the adjustment to the audio duration.
FixedTimingsNoAdjust(idur, n, total) == Repeat(idur, n)

\* video_gen.py:117-127  fixed duration mode
FixedTimings(idur, n, total) ==
    LET total_calculated == RMul(idur, RInt(n))
    IN  IF RLt(total, total_calculated)
        THEN Repeat(RDivInt(total, n), n)
        ELSE Repeat(idur, n)

\* The whole audio duration given to every image.
UniformTimingsUndivided(n, total) == Repeat(total, n)

\* video_gen.py:153-154  uniform fallback
UniformTimings(n, total) == Repeat(RDivInt(total, n), n)

\* video_gen.py:116-155  the timings list of create_video
ComputeTimings(lines, n, total, idur) ==
    IF idur # NoneVal
    THEN FixedTimings(idur, n, total)
    ELSE LET text_timings == _calculate_text_timing(lines, total)
         IN  IF Len(text_timings) > 0
             THEN SegmentLoop(text_timings, 1, n \div Len(text_timings),
                              n % Len(text_timings), <<>>)
             ELSE UniformTimings(n, total)

\* video_gen.py:136-143  num_images of every segment of the loop; empty in
\* the modes that have no segment loop
SegmentImages(lines, n, total, idur) ==
    IF idur # NoneVal THEN <<>>
    ELSE LET text_timings == _calculate_text_timing(lines, total)
         IN  IF Len(text_timings) > 0
             THEN [i \in 1..Len(text_timings) |->
                      NumImages(i - 1, n \div Len(text_timings),
                                n % Len(text_timings))]
             ELSE <<>>

\* video_gen.py:208  allow 0.1s tolerance
ReconcileTolerance == [n |-> 1, d |-> 10]

\* video_gen.py:208  abs(video.duration - audio.duration) > 0.1
NeedsReconcile(video, audio) ==
    RLt(ReconcileTolerance, RAbs(RSub(video, audio)))

\* video_gen.py:189  zip(all_images, timings): one clip per pair
ZipClips(n, t) ==
    [i \in 1..(IF n <= Len(t) THEN n ELSE Len(t)) |-> t[i]]

\* The extended last clip never put back into the clips list.
ExtendLastDropped(cl, extra_time) == cl

\* video_gen.py:216-219  the last clip lasts extra_time longer
ExtendLast(cl, extra_time) ==
    [i \in 1..Len(cl) |->
        IF i = Len(cl) THEN RAdd(cl[i], extra_time) ELSE cl[i]]

\* video_gen.py:213  video.subclipped(0, end): the part of each clip of the
\* concatenation that lies before end
Subclipped(cl, end) ==
    [i \in 1..Len(cl) |->
        LET start == RSum(SubSeq(cl, 1, i - 1))
            stop == RMin(RAdd(start, cl[i]), end)
        IN  IF RLt(start, stop) THEN RSub(stop, start) ELSE RInt(0)]

\* The arguments of a call of create_video, at the point where the images
\* are collected and the audio is loaded (video_gen.py:106-113); main() is
\* not looked at.
TimingInit ==
    /\ pc = "idle"
    /\ force = FALSE
    /\ checkpoint = NoStep
    /\ cpFile = "absent"
    /\ art = [s \in Stage |-> "absent"]
    /\ startFile = "absent"
    /\ startArt = [s \in Stage |-> "absent"]
    /\ ran = {}
    /\ skipped = {}
    /\ saveFailed = {}
    /\ failedStage = "none"
    /\ written = {}
    /\ afterComplete = FALSE
    /\ content = FALSE
    /\ tpc = "collected"
    /\ script \in SeqsUpTo(Line, MaxLines)
    /\ nImages \in 0..MaxImages
    /\ total_duration \in {Rat(t, 2) : t \in 0..MaxDuration}
    /\ image_duration \in {NoneVal} \cup {RInt(t) : t \in 1..MaxImageDuration}
    /\ timings = <<>>
    /\ segment_images = <<>>
    /\ clips = <<>>
    /\ video_duration = RInt(0)
    /\ shown = <<>>
    /\ prepared = <<>>
    /\ timings_again = <<>>
    /\ cpc = "off"
    /\ chapter_dirs = <<>>
    /\ chapter_data = <<>>
    /\ ocr_data = <<>>
    /\ all_images = <<>>
    /\ spc = "off"
    /\ chapter_count = 0
    /\ download_ok = <<>>
    /\ sfile = NoCheckpointFile
    /\ last_completed = 0
    /\ loaded_last = 0
    /\ chapters_to_download = <<>>
    /\ batch_start = 0
    /\ new_failed_chapters = <<>>
    /\ total_successful = 0
    /\ pending = {}
    /\ successful_chapters = <<>>
    /\ downloaded = {}
    /\ reported = "none"
    /\ ppc = "off"
    /\ available = <<>>
    /\ provider = "none"
    /\ provider_name = "None"
    /\ ocr_providers = <<>>
    /\ ocr_outputs = <<>>
    /\ ocr_text = NoText
    /\ bpc = "off"
    /\ max_workers = 0
    /\ queue_size = 0
    /\ running = FALSE
    /\ task_queue = <<>>
    /\ result_queue = <<>>
    /\ workers = <<>>
    /\ tasks = {}
    /\ to_add = <<>>
    /\ results = {}
    /\ next_id = 0
    /\ nones_put = 0
    /\ clock = 0
    /\ ticks = 0
    /\ cache_files = <<>>
    /\ last_set = <<>>
    /\ cache_op = NoCacheOp
    /\ set_before = NoSet
    /\ cache_result = NoneValue
    /\ func_executed = FALSE

\* video_gen.py:106-155: ValueError when no image has content, else the
\* timing plan.
PlanTimings ==
    /\ tpc = "collected"
    /\ IF nImages = 0
       THEN tpc' = "error" /\ UNCHANGED <<timings, segment_images>>
       ELSE /\ tpc' = "planned"
            /\ timings' = ComputeTimings(script, nImages, total_duration,
                                         image_duration)
            /\ segment_images' = SegmentImages(script, nImages,
                                               total_duration, image_duration)
    /\ UNCHANGED <<script, nImages, total_duration, image_duration,
                   clips, video_duration, shown, prepared, timings_again>>
    /\ UNCHANGED pipeVars
    /\ UNCHANGED catalogVars
    /\ UNCHANGED scraperVars
    /\ UNCHANGED providerVars
    /\ UNCHANGED batchVars
    /\ UNCHANGED cacheVars

\* A fallback frame that is given no duration.
_prepare_clipBlankWithoutDuration(path, decodes, duration) ==
    IF decodes
    THEN [path |-> path, frame |-> "image", duration |-> duration]
    ELSE [path |-> path, frame |-> "black", duration |-> RInt(0)]

\* video_gen.py:157-182: the clip of the image at position path of
\* all_images; decodes is FALSE when opening, cropping or resizing the image
\* raises, and the clip is then a black frame.
_prepare_clip(path, decodes, duration) ==
    IF decodes
    THEN [path |-> path, frame |-> "image", duration |-> duration]
    ELSE [path |-> path, frame |-> "black", duration |-> duration]

\* video_gen.py:184-223: one clip per (image, timing) pair, each made by
\* _prepare_clip whether or not its image can be decoded, concatenated;
\* when the result is off the audio by more than the tolerance it is
\* trimmed to the audio, or its last clip extended by the shortfall.
ComposeVideo ==
    /\ tpc = "planned"
    /\ tpc' = "composed"
    /\ \E broken \in SUBSET (1..nImages) :
         prepared' = [i \in 1..Len(ZipClips(nImages, timings)) |->
                         _prepare_clip(i, i \notin broken,
                                       ZipClips(nImages, timings)[i])]
    /\ LET made == [i \in 1..Len(prepared') |-> prepared'[i].duration]
           video == RSum(made)
       IN  IF NeedsReconcile(video, total_duration)
           THEN IF RLt(total_duration, video)
                THEN /\ clips' = made
                     /\ video_duration' = total_duration
                     /\ shown' = Subclipped(made, total_duration)
                ELSE LET extended ==
                             ExtendLast(made, RSub(total_duration, video))
                     IN  /\ clips' = extended
                         /\ video_duration' = RSum(extended)
                         /\ shown' = extended
           ELSE /\ clips' = made
                /\ video_duration' = video
                /\ shown' = made
    /\ UNCHANGED <<script, nImages, total_duration, image_duration, timings,
                   segment_images, timings_again>>
    /\ UNCHANGED pipeVars
    /\ UNCHANGED catalogVars
    /\ UNCHANGED scraperVars
    /\ UNCHANGED providerVars
    /\ UNCHANGED batchVars
    /\ UNCHANGED cacheVars

\* The list a call appends to when it is one kept from call to call.
ComputeTimingsKeepingList(lines, n, total, idur) ==
    timings \o ComputeTimings(lines, n, total, idur)

\* video_gen.py:116-155: the timings list of another call of create_video
\* with the arguments of the first; timings is a local of each call.
ComputeTimingsAgain(lines, n, total, idur) ==
    ComputeTimings(lines, n, total, idur)

\* video_gen.py:106-155: create_video called a second time with the same
\* audio, script, images and image_duration.
PlanAgain ==
    /\ tpc = "planned"
    /\ tpc' = "planned twice"
    /\ timings_again' = ComputeTimingsAgain(script, nImages, total_duration,
                                             image_duration)
    /\ UNCHANGED <<script, nImages, total_duration, image_duration, timings,
                   segment_images, clips, video_duration, shown, prepared>>
    /\ UNCHANGED pipeVars
    /\ UNCHANGED catalogVars
    /\ UNCHANGED scraperVars
    /\ UNCHANGED providerVars
    /\ UNCHANGED batchVars
    /\ UNCHANGED cacheVars

(***************************************************************************)
(* Page catalog: modules/ocr.py, and the image collection of create_video  *)
(***************************************************************************)

MaxChapters == 2
MaxFiles == 2

\* File names of a chapter directory; their order is the sorted() order.
FileName == 1..MaxFiles

\* What pytesseract does on an image: it raises, or returns a text.
OcrOutput ==
    {[raises |-> TRUE, text |-> ""]}
    \cup {[raises |-> FALSE, text |-> t] : t \in {"", "Hello", "[SFX] boom"}}

\* A file of a chapter directory: an image (.png/.jpg/.jpeg/.webp) with what
\* OCR does on it, or a file with another extension.
ChapterFile ==
    {[image |-> TRUE, ocr |-> o] : o \in OcrOutput}
    \cup {[image |-> FALSE, ocr |-> [raises |-> TRUE, text |-> ""]]}

\* A chapter directory: its files by name.
ChapterDir == UNION {[names -> ChapterFile] : names \in SUBSET FileName}

\* ocr.py:14 and :17: the texts of an empty page and of a failed page (the
\* first written here without its accent)
EmptyPageText == "[Pagina vazia]"
ErrorPageText == "[Erro ao processar: exc]"

\* text.startswith("[")
StartsWithBracket(text) ==
    text \in {EmptyPageText, ErrorPageText, "[SFX] boom"}

\* ocr.py:8-17
extract_text_from_image(o) ==
    IF o.raises THEN ErrorPageText
    ELSE IF o.text = "" THEN EmptyPageText
    ELSE o.text

\* sorted(names): the names in increasing order
RECURSIVE Sorted(_)
Sorted(names) ==
    IF names = {} THEN <<>>
    ELSE LET least == CHOOSE x \in names : \A y \in names : x <= y
         IN  <<least>> \o Sorted(names \ {least})

\* The image files of a directory in the opposite of the sorted order.
ImageFilesReversed(dir) ==
    LET s == Sorted({f \in DOMAIN dir : dir[f].image})
    IN  [i \in 1..Len(s) |-> s[Len(s) + 1 - i]]

\* ocr.py:23-24, video_gen.py:81-82: the image files of a directory, sorted
ImageFiles(dir) == Sorted({f \in DOMAIN dir : dir[f].image})

\* ocr.py:47  text and not text.startswith("[")
HasContent(text) == text # "" /\ ~StartsWithBracket(text)

\* A chapter whose pages stop at the first image that fails.
extract_text_from_chapterStopsAtFailure(c, dir) ==
    LET image_files == ImageFiles(dir)
        failing == {i \in 1..Len(image_files) :
                       dir[image_files[i]].ocr.raises}
        processed ==
            IF failing = {} THEN Len(image_files)
            ELSE (CHOOSE i \in failing : \A j \in failing : i <= j) - 1
        page_data ==
            [i \in 1..processed |->
                LET text == extract_text_from_image(dir[image_files[i]].ocr)
                IN  [image_file |-> image_files[i],
                     page_number |-> i,
                     text |-> text,
                     has_content |-> HasContent(text)]]
        pages_with_content ==
            Cardinality({i \in 1..Len(page_data) : page_data[i].has_content})
    IN  [chapter_name |-> c,
         total_pages |-> Len(image_files),
         pages_with_content |-> pages_with_content,
         page_data |-> page_data,
         has_meaningful_content |-> pages_with_content > 0]

\* ocr.py:20-69: the catalog entry of chapter c; page_data in page order
extract_text_from_chapter(c, dir) ==
    LET image_files == ImageFiles(dir)
        page_data ==
            [i \in 1..Len(image_files) |->
                LET text == extract_text_from_image(dir[image_files[i]].ocr)
                IN  [image_file |-> image_files[i],
                     page_number |-> i,
                     text |-> text,
                     has_content |-> HasContent(text)]]
        pages_with_content ==
            Cardinality({i \in 1..Len(page_data) : page_data[i].has_content})
    IN  [chapter_name |-> c,
         total_pages |-> Len(image_files),
         pages_with_content |-> pages_with_content,
         page_data |-> page_data,
         has_meaningful_content |-> pages_with_content > 0]

\* video_gen.py:86-97: the page of the catalog for a file of chapter c; the
\* defaults are page_text = "" and has_content = False
LookupPage(data, c, file) ==
    LET hits == {h \in (1..Len(data)) \X (1..MaxFiles + 1) :
                    /\ data[h[1]].chapter_name = c
                    /\ h[2] <= Len(data[h[1]].page_data)
                    /\ data[h[1]].page_data[h[2]].image_file = file}
    IN  IF hits = {} THEN [text |-> "", has_content |-> FALSE]
        ELSE LET last == CHOOSE h \in hits :
                             \A g \in hits : g[1] <= h[1]
                 first == CHOOSE h \in hits :
                             /\ h[1] = last[1]
                             /\ \A g \in hits : g[1] = h[1] => h[2] <= g[2]
                 page == data[first[1]].page_data[first[2]]
             IN  [text |-> page.text, has_content |-> page.has_content]

\* The test of video_gen.py:100 that lets every image file in.
IncludeImageAlways(has_content, page_text) == TRUE

\* video_gen.py:100
IncludeImage(has_content, page_text) ==
    /\ has_content
    /\ page_text # ""
    /\ page_text # EmptyPageText
    /\ page_text # ErrorPageText

\* video_gen.py:81-104: the images of chapter c that enter the video
ChapterImages(data, c, dir) ==
    LET files == ImageFiles(dir)
        keep == {i \in 1..Len(files) :
                    LET page == LookupPage(data, c, files[i])
                    IN  IncludeImage(page.has_content, page.text)}
    IN  [j \in 1..Cardinality(keep) |->
            <<c, files[CHOOSE i \in keep :
                          Cardinality({h \in keep : h <= i}) = j]>>]

\* video_gen.py:79-104: over the chapters from index c, in order
RECURSIVE CollectFrom(_, _, _)
CollectFrom(data, dirs, c) ==
    IF c > Len(dirs) THEN <<>>
    ELSE ChapterImages(data, c, dirs[c]) \o CollectFrom(data, dirs, c + 1)

\* The chapter directories main() found (at least one, main.py:106); nothing
\* extracted yet. main()'s stage runner and the timing plan are not looked
\* at.
CatalogInit ==
    /\ pc = "idle"
    /\ force = FALSE
    /\ checkpoint = NoStep
    /\ cpFile = "absent"
    /\ art = [s \in Stage |-> "absent"]
    /\ startFile = "absent"
    /\ startArt = [s \in Stage |-> "absent"]
    /\ ran = {}
    /\ skipped = {}
    /\ saveFailed = {}
    /\ failedStage = "none"
    /\ written = {}
    /\ afterComplete = FALSE
    /\ content = FALSE
    /\ tpc = "off"
    /\ script = <<>>
    /\ nImages = 0
    /\ total_duration = RInt(0)
    /\ image_duration = NoneVal
    /\ timings = <<>>
    /\ segment_images = <<>>
    /\ clips = <<>>
    /\ video_duration = RInt(0)
    /\ shown = <<>>
    /\ prepared = <<>>
    /\ timings_again = <<>>
    /\ cpc = "found"
    /\ chapter_dirs \in SeqsUpTo(ChapterDir, MaxChapters) \ {<<>>}
    /\ chapter_data = <<>>
    /\ ocr_data = <<>>
    /\ all_images = <<>>
    /\ spc = "off"
    /\ chapter_count = 0
    /\ download_ok = <<>>
    /\ sfile = NoCheckpointFile
    /\ last_completed = 0
    /\ loaded_last = 0
    /\ chapters_to_download = <<>>
    /\ batch_start = 0
    /\ new_failed_chapters = <<>>
    /\ total_successful = 0
    /\ pending = {}
    /\ successful_chapters = <<>>
    /\ downloaded = {}
    /\ reported = "none"
    /\ ppc = "off"
    /\ available = <<>>
    /\ provider = "none"
    /\ provider_name = "None"
    /\ ocr_providers = <<>>
    /\ ocr_outputs = <<>>
    /\ ocr_text = NoText
    /\ bpc = "off"
    /\ max_workers = 0
    /\ queue_size = 0
    /\ running = FALSE
    /\ task_queue = <<>>
    /\ result_queue = <<>>
    /\ workers = <<>>
    /\ tasks = {}
    /\ to_add = <<>>
    /\ results = {}
    /\ next_id = 0
    /\ nones_put = 0
    /\ clock = 0
    /\ ticks = 0
    /\ cache_files = <<>>
    /\ last_set = <<>>
    /\ cache_op = NoCacheOp
    /\ set_before = NoSet
    /\ cache_result = NoneValue
    /\ func_executed = FALSE

\* main.py:129-133: the OCR stage builds the catalog, one entry per chapter.
ExtractChapters ==
    /\ cpc = "found"
    /\ cpc' = "extracted"
    /\ chapter_data' = [c \in 1..Len(chapter_dirs) |->
                           extract_text_from_chapter(c, chapter_dirs[c])]
    /\ UNCHANGED <<chapter_dirs, ocr_data, all_images>>
    /\ UNCHANGED pipeVars
    /\ UNCHANGED timingVars
    /\ UNCHANGED scraperVars
    /\ UNCHANGED providerVars
    /\ UNCHANGED batchVars
    /\ UNCHANGED cacheVars

\* video_gen.py:72-107: create_video loads the catalog (None when the file
\* is missing or does not parse) and collects the images with content;
\* ValueError when there is none.
CollectImages ==
    /\ cpc = "extracted"
    /\ \E loaded \in BOOLEAN :
        /\ ocr_data' = IF loaded THEN chapter_data ELSE <<>>
        /\ all_images' = CollectFrom(ocr_data', chapter_dirs, 1)
    /\ cpc' = IF all_images' = <<>> THEN "error" ELSE "collected"
    /\ UNCHANGED <<chapter_dirs, chapter_data>>
    /\ UNCHANGED pipeVars
    /\ UNCHANGED timingVars
    /\ UNCHANGED scraperVars
    /\ UNCHANGED providerVars
    /\ UNCHANGED batchVars
    /\ UNCHANGED cacheVars

(***************************************************************************)
(* Chapter downloads: modules/manga_scraper.py                             *)
(***************************************************************************)

MaxLinks == 4

\* manga_scraper.py:325  batch_size: int = 3
batch_size == 3

\* max(xs) of a non-empty set of integers
Max(xs) == CHOOSE x \in xs : \A y \in xs : y <= x

Range(seq) == {seq[i] : i \in 1..Len(seq)}

\* manga_scraper.py:82-92: the record of the file, or the default record
\* when the file is missing or does not parse
_load_checkpoint(file) ==
    IF file.st = "ok"
    THEN [last_completed_chapter |-> file.last, failed_chapters |-> file.failed]
    ELSE [last_completed_chapter |-> 0, failed_chapters |-> <<>>]

\* What _save_checkpoint's write can do; its exceptions are caught and
\* logged.
ScraperSaveOutcome == {"ok", "open_fail", "write_fail"}

\* manga_scraper.py:95-108
_save_checkpoint(file, last, failed_chapters, o) ==
    CASE o = "ok" -> [st |-> "ok", last |-> last, failed |-> failed_chapters]
      [] o = "open_fail" -> file
      [] o = "write_fail" -> [st |-> "partial", last |-> 0, failed |-> <<>>]

\* manga_scraper.py:111-119
_delete_checkpoint(file) == NoCheckpointFile

\* manga_scraper.py:362-379: the chapters after last_completed and the
\* chapters that failed before, without duplicates, sorted by index
ChaptersToDownload(count, last, failed_chapters) ==
    Sorted({idx \in 1..count : idx > last}
           \cup {f \in Range(failed_chapters) : f <= count})

\* manga_scraper.py:391-392  batch = chapters_to_download[i:i + batch_size]
Batch(to_download, i) ==
    SubSeq(to_download, i + 1,
           IF i + batch_size <= Len(to_download) THEN i + batch_size
           ELSE Len(to_download))

\* The chapter that finished last taken for the highest one.
NewLastCompletedLastFinished(last, successful_in_batch) ==
    IF successful_in_batch[Len(successful_in_batch)] > last
    THEN successful_in_batch[Len(successful_in_batch)]
    ELSE last

\* manga_scraper.py:402  max(last_completed, max(successful_in_batch))
NewLastCompleted(last, successful_in_batch) ==
    Max({last} \cup Range(successful_in_batch))

\* manga_scraper.py:405  the chapters of the batch that are not in
\* successful_in_batch, in batch order
BatchFailed(batch_nums, successful_in_batch) ==
    LET IsFailed(num) == num \notin Range(successful_in_batch)
    IN  SelectSeq(batch_nums, IsFailed)

\* No download has been requested; the links file lists at least one
\* chapter and there is no checkpoint file. The rest of the program is not
\* looked at.
ScraperInit ==
    /\ pc = "idle"
    /\ force = FALSE
    /\ checkpoint = NoStep
    /\ cpFile = "absent"
    /\ art = [s \in Stage |-> "absent"]
    /\ startFile = "absent"
    /\ startArt = [s \in Stage |-> "absent"]
    /\ ran = {}
    /\ skipped = {}
    /\ saveFailed = {}
    /\ failedStage = "none"
    /\ written = {}
    /\ afterComplete = FALSE
    /\ content = FALSE
    /\ tpc = "off"
    /\ script = <<>>
    /\ nImages = 0
    /\ total_duration = RInt(0)
    /\ image_duration = NoneVal
    /\ timings = <<>>
    /\ segment_images = <<>>
    /\ clips = <<>>
    /\ video_duration = RInt(0)
    /\ shown = <<>>
    /\ prepared = <<>>
    /\ timings_again = <<>>
    /\ cpc = "off"
    /\ chapter_dirs = <<>>
    /\ chapter_data = <<>>
    /\ ocr_data = <<>>
    /\ all_images = <<>>
    /\ spc = "idle"
    /\ chapter_count \in 1..MaxLinks
    /\ download_ok = <<>>
    /\ sfile = NoCheckpointFile
    /\ last_completed = 0
    /\ loaded_last = 0
    /\ chapters_to_download = <<>>
    /\ batch_start = 0
    /\ new_failed_chapters = <<>>
    /\ total_successful = 0
    /\ pending = {}
    /\ successful_chapters = <<>>
    /\ downloaded = {}
    /\ reported = "none"
    /\ ppc = "off"
    /\ available = <<>>
    /\ provider = "none"
    /\ provider_name = "None"
    /\ ocr_providers = <<>>
    /\ ocr_outputs = <<>>
    /\ ocr_text = NoText
    /\ bpc = "off"
    /\ max_workers = 0
    /\ queue_size = 0
    /\ running = FALSE
    /\ task_queue = <<>>
    /\ result_queue = <<>>
    /\ workers = <<>>
    /\ tasks = {}
    /\ to_add = <<>>
    /\ results = {}
    /\ next_id = 0
    /\ nones_put = 0
    /\ clock = 0
    /\ ticks = 0
    /\ cache_files = <<>>
    /\ last_set = <<>>
    /\ cache_op = NoCacheOp
    /\ set_before = NoSet
    /\ cache_result = NoneValue
    /\ func_executed = FALSE

\* manga_scraper.py:325-388: download_chapters up to its loop: read the
\* links file (return when that fails), load the checkpoint, list the
\* chapters to download; when there is none the checkpoint is deleted and
\* the call returns. The result of each chapter's download in this call is
\* drawn here.
StartDownload ==
    /\ spc \in {"idle", "done"}
    /\ \E readable \in BOOLEAN, o \in [1..chapter_count -> BOOLEAN] :
        LET checkpoint_rec == _load_checkpoint(sfile)
            todo == ChaptersToDownload(chapter_count,
                                       checkpoint_rec.last_completed_chapter,
                                       checkpoint_rec.failed_chapters)
        IN  IF ~readable
            THEN /\ spc' = "done"
                 /\ UNCHANGED <<download_ok, sfile, last_completed, loaded_last,
                                chapters_to_download>>
            ELSE /\ download_ok' = o
                 /\ last_completed' = checkpoint_rec.last_completed_chapter
                 /\ loaded_last' = checkpoint_rec.last_completed_chapter
                 /\ chapters_to_download' = todo
                 /\ IF todo = <<>>
                    THEN spc' = "done" /\ sfile' = _delete_checkpoint(sfile)
                    ELSE spc' = "batch" /\ sfile' = sfile
    /\ batch_start' = 0
    /\ new_failed_chapters' = <<>>
    /\ total_successful' = 0
    /\ pending' = {}
    /\ successful_chapters' = <<>>
    /\ reported' = "none"
    /\ UNCHANGED <<chapter_count, downloaded>>
    /\ UNCHANGED pipeVars
    /\ UNCHANGED timingVars
    /\ UNCHANGED catalogVars
    /\ UNCHANGED providerVars
    /\ UNCHANGED batchVars
    /\ UNCHANGED cacheVars

\* manga_scraper.py:390-396, 302-310: the next batch is cut and one future
\* per chapter is submitted to the pool.
SubmitBatch ==
    /\ spc = "batch"
    /\ batch_start < Len(chapters_to_download)
    /\ spc' = "collect"
    /\ pending' = Range(Batch(chapters_to_download, batch_start))
    /\ successful_chapters' = <<>>
    /\ UNCHANGED <<chapter_count, download_ok, sfile, last_completed, loaded_last,
                   chapters_to_download, batch_start, new_failed_chapters,
                   total_successful, downloaded, reported>>
    /\ UNCHANGED pipeVars
    /\ UNCHANGED timingVars
    /\ UNCHANGED catalogVars
    /\ UNCHANGED providerVars
    /\ UNCHANGED batchVars
    /\ UNCHANGED cacheVars

\* manga_scraper.py:313-320: as_completed yields the future of some chapter
\* that has finished; its number is appended when the download succeeded.
FutureCompleted ==
    /\ spc = "collect"
    /\ \E chapter_num \in pending :
        /\ pending' = pending \ {chapter_num}
        /\ successful_chapters' =
             IF download_ok[chapter_num]
             THEN Append(successful_chapters, chapter_num)
             ELSE successful_chapters
        /\ downloaded' =
             IF download_ok[chapter_num]
             THEN downloaded \cup {chapter_num}
             ELSE downloaded
    /\ UNCHANGED <<spc, chapter_count, download_ok, sfile, last_completed,
                   loaded_last, chapters_to_download, batch_start,
                   new_failed_chapters, total_successful, reported>>
    /\ UNCHANGED pipeVars
    /\ UNCHANGED timingVars
    /\ UNCHANGED catalogVars
    /\ UNCHANGED providerVars
    /\ UNCHANGED batchVars
    /\ UNCHANGED cacheVars

\* manga_scraper.py:322, 397-413: the batch returns; when a chapter of it
\* succeeded the checkpoint is updated and saved.
MergeBatch ==
    /\ spc = "collect"
    /\ pending = {}
    /\ spc' = "batch"
    /\ batch_start' = batch_start + batch_size
    /\ total_successful' = total_successful + Len(successful_chapters)
    /\ IF successful_chapters # <<>>
       THEN /\ last_completed' =
                 NewLastCompleted(last_completed, successful_chapters)
            /\ new_failed_chapters' =
                 new_failed_chapters
                 \o BatchFailed(Batch(chapters_to_download, batch_start),
                                successful_chapters)
            /\ \E o \in ScraperSaveOutcome :
                 sfile' = _save_checkpoint(sfile, last_completed',
                                           new_failed_chapters', o)
       ELSE UNCHANGED <<last_completed, new_failed_chapters, sfile>>
    /\ UNCHANGED <<chapter_count, download_ok, loaded_last, chapters_to_download,
                   pending, successful_chapters, downloaded, reported>>
    /\ UNCHANGED pipeVars
    /\ UNCHANGED timingVars
    /\ UNCHANGED catalogVars
    /\ UNCHANGED providerVars
    /\ UNCHANGED batchVars
    /\ UNCHANGED cacheVars

\* manga_scraper.py:415-432: after the last batch, the summary; the
\* checkpoint is deleted when new_failed_chapters is empty.
FinishDownload ==
    /\ spc = "batch"
    /\ batch_start >= Len(chapters_to_download)
    /\ spc' = "done"
    /\ sfile' = IF new_failed_chapters = <<>>
                THEN _delete_checkpoint(sfile) ELSE sfile
    /\ reported' = IF new_failed_chapters = <<>> THEN "all" ELSE "failed"
    /\ UNCHANGED <<chapter_count, download_ok, last_completed, loaded_last,
                   chapters_to_download, batch_start, new_failed_chapters,
                   total_successful, pending, successful_chapters, downloaded>>
    /\ UNCHANGED pipeVars
    /\ UNCHANGED timingVars
    /\ UNCHANGED catalogVars
    /\ UNCHANGED providerVars
    /\ UNCHANGED batchVars
    /\ UNCHANGED cacheVars

\* The process running download_chapters is killed inside its batch loop
\* (manga_scraper.py:390-413): the locals are lost, the files stay.
Crash ==
    /\ spc \in {"batch", "collect"}
    /\ spc' = "done"
    /\ UNCHANGED <<chapter_count, download_ok, sfile, last_completed,
                   loaded_last, chapters_to_download, batch_start,
                   new_failed_chapters, total_successful, pending,
                   successful_chapters, downloaded, reported>>
    /\ UNCHANGED pipeVars
    /\ UNCHANGED timingVars
    /\ UNCHANGED catalogVars
    /\ UNCHANGED providerVars
    /\ UNCHANGED batchVars
    /\ UNCHANGED cacheVars

(***************************************************************************)
(* Provider selection: src/main.py (MangaRecap), modules/ocr_provider.py   *)
(***************************************************************************)

\* src/main.py:30-34  the AI providers of MangaRecap
AIProviderName == {"openai", "local", "silent"}

\* src/main.py:48  the order in which the providers are asked
ProviderPriority == <<"openai", "local", "silent">>

\* The providers asked in another order.
_select_best_providerLocalFirst(avail) ==
    IF avail["local"] THEN "local"
    ELSE IF avail["openai"] THEN "openai"
    ELSE "silent"

\* src/main.py:46-53
_select_best_provider(avail) ==
    LET hits == {k \in 1..Len(ProviderPriority) : avail[ProviderPriority[k]]}
    IN  IF hits = {} THEN "silent"
        ELSE ProviderPriority[CHOOSE k \in hits : \A h \in hits : k <= h]

\* ocr_provider.py:117  provider_name: None, or the name of one provider
ProviderNameArg == {"None", "openai", "trocr", "tesseract"}

\* What an OCR provider does on an image: it raises, or returns a text
\* (empty, blank, or with characters).
ProviderOutput ==
    {[raises |-> TRUE, text |-> ""]}
    \cup {[raises |-> FALSE, text |-> t] : t \in {"", " ", "A", " B "}}

\* text.strip()
Strip(text) ==
    CASE text = " " -> ""
      [] text = " B " -> "B"
      [] OTHER -> text

\* ocr_provider.py:117-141  the providers list OCRManager builds
OCRManagerProviders(name, openai_available, trocr_available) ==
    (IF name \in {"None", "openai"} /\ openai_available
     THEN <<"openai">> ELSE <<>>)
    \o (IF name \in {"None", "trocr"} /\ trocr_available
        THEN <<"trocr">> ELSE <<>>)
    \o <<"tesseract">>

\* ocr_provider.py:145-151: the loop over the providers from index k
RECURSIVE TryProviders(_, _, _)
TryProviders(list, outputs, k) ==
    IF k > Len(list) THEN EmptyPageText
    ELSE LET o == outputs[list[k]]
         IN  IF ~o.raises /\ Strip(o.text) # ""
             THEN Strip(o.text)
             ELSE TryProviders(list, outputs, k + 1)

\* ocr_provider.py:143-152  OCRManager.extract_text; Image.open may raise
extract_text(list, outputs, opens) ==
    IF opens THEN [raised |-> FALSE, text |-> TryProviders(list, outputs, 1)]
    ELSE [raised |-> TRUE, text |-> ""]

\* A MangaRecap is being constructed: its three AI providers exist, each
\* available or not (src/main.py:28-34). The rest of the program is not
\* looked at.
ProviderInit ==
    /\ pc = "idle"
    /\ force = FALSE
    /\ checkpoint = NoStep
    /\ cpFile = "absent"
    /\ art = [s \in Stage |-> "absent"]
    /\ startFile = "absent"
    /\ startArt = [s \in Stage |-> "absent"]
    /\ ran = {}
    /\ skipped = {}
    /\ saveFailed = {}
    /\ failedStage = "none"
    /\ written = {}
    /\ afterComplete = FALSE
    /\ content = FALSE
    /\ tpc = "off"
    /\ script = <<>>
    /\ nImages = 0
    /\ total_duration = RInt(0)
    /\ image_duration = NoneVal
    /\ timings = <<>>
    /\ segment_images = <<>>
    /\ clips = <<>>
    /\ video_duration = RInt(0)
    /\ shown = <<>>
    /\ prepared = <<>>
    /\ timings_again = <<>>
    /\ cpc = "off"
    /\ chapter_dirs = <<>>
    /\ chapter_data = <<>>
    /\ ocr_data = <<>>
    /\ all_images = <<>>
    /\ spc = "off"
    /\ chapter_count = 0
    /\ download_ok = <<>>
    /\ sfile = NoCheckpointFile
    /\ last_completed = 0
    /\ loaded_last = 0
    /\ chapters_to_download = <<>>
    /\ batch_start = 0
    /\ new_failed_chapters = <<>>
    /\ total_successful = 0
    /\ pending = {}
    /\ successful_chapters = <<>>
    /\ downloaded = {}
    /\ reported = "none"
    /\ ppc = "constructed"
    /\ available \in [AIProviderName -> BOOLEAN]
    /\ provider = "none"
    /\ provider_name = "None"
    /\ ocr_providers = <<>>
    /\ ocr_outputs = <<>>
    /\ ocr_text = NoText
    /\ bpc = "off"
    /\ max_workers = 0
    /\ queue_size = 0
    /\ running = FALSE
    /\ task_queue = <<>>
    /\ result_queue = <<>>
    /\ workers = <<>>
    /\ tasks = {}
    /\ to_add = <<>>
    /\ results = {}
    /\ next_id = 0
    /\ nones_put = 0
    /\ clock = 0
    /\ ticks = 0
    /\ cache_files = <<>>
    /\ last_set = <<>>
    /\ cache_op = NoCacheOp
    /\ set_before = NoSet
    /\ cache_result = NoneValue
    /\ func_executed = FALSE

\* src/main.py:37  self.provider = self._select_best_provider()
SelectProvider ==
    /\ ppc = "constructed"
    /\ ppc' = "selected"
    /\ provider' = _select_best_provider(available)
    /\ UNCHANGED <<available, provider_name, ocr_providers, ocr_outputs,
                   ocr_text>>
    /\ UNCHANGED pipeVars
    /\ UNCHANGED timingVars
    /\ UNCHANGED catalogVars
    /\ UNCHANGED scraperVars
    /\ UNCHANGED batchVars
    /\ UNCHANGED cacheVars

\* ocr_provider.py:117-141  OCRManager(provider_name)
NewOCRManager ==
    /\ ppc = "selected"
    /\ ppc' = "managed"
    /\ \E name \in ProviderNameArg, openai_available \in BOOLEAN,
          trocr_available \in BOOLEAN :
        /\ provider_name' = name
        /\ ocr_providers' = OCRManagerProviders(name, openai_available,
                                                trocr_available)
    /\ UNCHANGED <<available, provider, ocr_outputs, ocr_text>>
    /\ UNCHANGED pipeVars
    /\ UNCHANGED timingVars
    /\ UNCHANGED catalogVars
    /\ UNCHANGED scraperVars
    /\ UNCHANGED batchVars
    /\ UNCHANGED cacheVars

\* ocr_provider.py:143-152  OCRManager.extract_text(image_path)
ExtractText ==
    /\ ppc = "managed"
    /\ ppc' = "extracted"
    /\ \E outputs \in [{"openai", "trocr", "tesseract"} -> ProviderOutput],
          opens \in BOOLEAN :
        /\ ocr_outputs' = outputs
        /\ ocr_text' = extract_text(ocr_providers, outputs, opens)
    /\ UNCHANGED <<available, provider, provider_name, ocr_providers>>
    /\ UNCHANGED pipeVars
    /\ UNCHANGED timingVars
    /\ UNCHANGED catalogVars
    /\ UNCHANGED scraperVars
    /\ UNCHANGED batchVars
    /\ UNCHANGED cacheVars

(***************************************************************************)
(* Batch processing: src/utils/batch_processor.py                          *)
(***************************************************************************)

MaxTasks == 3
MaxWorkers == 2
MaxQueue == 2

\* A worker thread: at the loop test ("top"), in task_queue.get ("get"),
\* executing a task ("run"), or returned from _worker ("dead").
WorkerAt(at, task) == [at |-> at, task |-> task]

\* batch_processor.py:32, 74  Queue.put blocks while the queue is full
CanPut == Len(task_queue) < queue_size

\* A BatchProcessor has been constructed with its two arguments
\* (batch_processor.py:15-21). The rest of the program is not looked at.
BatchInit ==
    /\ pc = "idle"
    /\ force = FALSE
    /\ checkpoint = NoStep
    /\ cpFile = "absent"
    /\ art = [s \in Stage |-> "absent"]
    /\ startFile = "absent"
    /\ startArt = [s \in Stage |-> "absent"]
    /\ ran = {}
    /\ skipped = {}
    /\ saveFailed = {}
    /\ failedStage = "none"
    /\ written = {}
    /\ afterComplete = FALSE
    /\ content = FALSE
    /\ tpc = "off"
    /\ script = <<>>
    /\ nImages = 0
    /\ total_duration = RInt(0)
    /\ image_duration = NoneVal
    /\ timings = <<>>
    /\ segment_images = <<>>
    /\ clips = <<>>
    /\ video_duration = RInt(0)
    /\ shown = <<>>
    /\ prepared = <<>>
    /\ timings_again = <<>>
    /\ cpc = "off"
    /\ chapter_dirs = <<>>
    /\ chapter_data = <<>>
    /\ ocr_data = <<>>
    /\ all_images = <<>>
    /\ spc = "off"
    /\ chapter_count = 0
    /\ download_ok = <<>>
    /\ sfile = NoCheckpointFile
    /\ last_completed = 0
    /\ loaded_last = 0
    /\ chapters_to_download = <<>>
    /\ batch_start = 0
    /\ new_failed_chapters = <<>>
    /\ total_successful = 0
    /\ pending = {}
    /\ successful_chapters = <<>>
    /\ downloaded = {}
    /\ reported = "none"
    /\ ppc = "off"
    /\ available = <<>>
    /\ provider = "none"
    /\ provider_name = "None"
    /\ ocr_providers = <<>>
    /\ ocr_outputs = <<>>
    /\ ocr_text = NoText
    /\ bpc = "new"
    /\ max_workers \in 1..MaxWorkers
    /\ queue_size \in 1..MaxQueue
    /\ running = FALSE
    /\ task_queue = <<>>
    /\ result_queue = <<>>
    /\ workers = <<>>
    /\ tasks = {}
    /\ to_add = <<>>
    /\ results = {}
    /\ next_id = 0
    /\ nones_put = 0
    /\ clock = 0
    /\ ticks = 0
    /\ cache_files = <<>>
    /\ last_set = <<>>
    /\ cache_op = NoCacheOp
    /\ set_before = NoSet
    /\ cache_result = NoneValue
    /\ func_executed = FALSE

\* batch_processor.py:62-68  start()
StartWorkers ==
    /\ bpc = "new"
    /\ bpc' = "started"
    /\ running' = TRUE
    /\ workers' = [w \in 1..max_workers |-> WorkerAt("top", 0)]
    /\ UNCHANGED <<max_workers, queue_size, task_queue, result_queue, tasks,
                   to_add, results, next_id, nones_put>>
    /\ UNCHANGED pipeVars
    /\ UNCHANGED timingVars
    /\ UNCHANGED catalogVars
    /\ UNCHANGED scraperVars
    /\ UNCHANGED providerVars
    /\ UNCHANGED cacheVars

\* batch_processor.py:23-32  add_task called by the client
AddTask ==
    /\ bpc = "started"
    /\ next_id < MaxTasks
    /\ CanPut
    /\ task_queue' = Append(task_queue, next_id + 1)
    /\ next_id' = next_id + 1
    /\ UNCHANGED <<bpc, max_workers, queue_size, running, result_queue,
                   workers, tasks, to_add, results, nones_put>>
    /\ UNCHANGED pipeVars
    /\ UNCHANGED timingVars
    /\ UNCHANGED catalogVars
    /\ UNCHANGED scraperVars
    /\ UNCHANGED providerVars
    /\ UNCHANGED cacheVars

\* batch_processor.py:79-86  process_batch(tasks) is called with a batch of
\* new tasks
ProcessBatchCall ==
    /\ bpc = "started"
    /\ next_id < MaxTasks
    /\ \E n \in 1..(MaxTasks - next_id) :
        /\ tasks' = (next_id + 1)..(next_id + n)
        /\ to_add' = [i \in 1..n |-> next_id + i]
        /\ next_id' = next_id + n
    /\ results' = {}
    /\ bpc' = "adding"
    /\ UNCHANGED <<max_workers, queue_size, running, task_queue,
                   result_queue, workers, nones_put>>
    /\ UNCHANGED pipeVars
    /\ UNCHANGED timingVars
    /\ UNCHANGED catalogVars
    /\ UNCHANGED scraperVars
    /\ UNCHANGED providerVars
    /\ UNCHANGED cacheVars

\* batch_processor.py:82-83  one add_task of the loop of process_batch
PutBatchTask ==
    /\ bpc = "adding"
    /\ CanPut
    /\ task_queue' = Append(task_queue, Head(to_add))
    /\ to_add' = Tail(to_add)
    /\ bpc' = IF Tail(to_add) = <<>> THEN "check" ELSE "adding"
    /\ UNCHANGED <<max_workers, queue_size, running, result_queue, workers,
                   tasks, results, next_id, nones_put>>
    /\ UNCHANGED pipeVars
    /\ UNCHANGED timingVars
    /\ UNCHANGED catalogVars
    /\ UNCHANGED scraperVars
    /\ UNCHANGED providerVars
    /\ UNCHANGED cacheVars

\* batch_processor.py:87, 91  while not self.task_queue.empty(); return
CheckEmpty ==
    /\ bpc = "check"
    /\ bpc' = IF task_queue = <<>> THEN "returned" ELSE "await"
    /\ UNCHANGED <<max_workers, queue_size, running, task_queue,
                   result_queue, workers, tasks, to_add, results, next_id,
                   nones_put>>
    /\ UNCHANGED pipeVars
    /\ UNCHANGED timingVars
    /\ UNCHANGED catalogVars
    /\ UNCHANGED scraperVars
    /\ UNCHANGED providerVars
    /\ UNCHANGED cacheVars

\* batch_processor.py:88-89  result = self.result_queue.get() blocks until
\* a result is there; results[result['id']] = result
GetResult ==
    /\ bpc = "await"
    /\ result_queue # <<>>
    /\ results' = {r \in results : r.id # Head(result_queue).id}
                  \cup {Head(result_queue)}
    /\ result_queue' = Tail(result_queue)
    /\ bpc' = "check"
    /\ UNCHANGED <<max_workers, queue_size, running, task_queue, workers,
                   tasks, to_add, next_id, nones_put>>
    /\ UNCHANGED pipeVars
    /\ UNCHANGED timingVars
    /\ UNCHANGED catalogVars
    /\ UNCHANGED scraperVars
    /\ UNCHANGED providerVars
    /\ UNCHANGED cacheVars

\* batch_processor.py:72  stop() is called: self.running = False
StopCall ==
    /\ bpc \in {"started", "returned"}
    /\ bpc' = "stop_put"
    /\ running' = FALSE
    /\ nones_put' = 0
    /\ UNCHANGED <<max_workers, queue_size, task_queue, result_queue,
                   workers, tasks, to_add, results, next_id>>
    /\ UNCHANGED pipeVars
    /\ UNCHANGED timingVars
    /\ UNCHANGED catalogVars
    /\ UNCHANGED scraperVars
    /\ UNCHANGED providerVars
    /\ UNCHANGED cacheVars

\* batch_processor.py:73-74  self.task_queue.put(None), once per worker
StopPut ==
    /\ bpc = "stop_put"
    /\ CanPut
    /\ task_queue' = Append(task_queue, 0)
    /\ nones_put' = nones_put + 1
    /\ bpc' = IF nones_put + 1 = Len(workers) THEN "join" ELSE "stop_put"
    /\ UNCHANGED <<max_workers, queue_size, running, result_queue, workers,
                   tasks, to_add, results, next_id>>
    /\ UNCHANGED pipeVars
    /\ UNCHANGED timingVars
    /\ UNCHANGED catalogVars
    /\ UNCHANGED scraperVars
    /\ UNCHANGED providerVars
    /\ UNCHANGED cacheVars

\* batch_processor.py:76-77  worker.join() for every worker; stop returns
StopJoin ==
    /\ bpc = "join"
    /\ \A w \in 1..Len(workers) : workers[w].at = "dead"
    /\ bpc' = "stopped"
    /\ UNCHANGED <<max_workers, queue_size, running, task_queue,
                   result_queue, workers, tasks, to_add, results, next_id,
                   nones_put>>
    /\ UNCHANGED pipeVars
    /\ UNCHANGED timingVars
    /\ UNCHANGED catalogVars
    /\ UNCHANGED scraperVars
    /\ UNCHANGED providerVars
    /\ UNCHANGED cacheVars

\* batch_processor.py:36  while self.running
WorkerTest(w) ==
    /\ workers[w].at = "top"
    /\ workers' = [workers EXCEPT ![w] =
                      WorkerAt(IF running THEN "get" ELSE "dead", 0)]
    /\ UNCHANGED <<bpc, max_workers, queue_size, running, task_queue,
                   result_queue, tasks, to_add, results, next_id, nones_put>>
    /\ UNCHANGED pipeVars
    /\ UNCHANGED timingVars
    /\ UNCHANGED catalogVars
    /\ UNCHANGED scraperVars
    /\ UNCHANGED providerVars
    /\ UNCHANGED cacheVars

\* batch_processor.py:38-40, 59-60  task_queue.get(timeout=1): a task, None
\* (break), or queue.Empty after the timeout (continue)
WorkerGet(w) ==
    /\ workers[w].at = "get"
    /\ IF task_queue = <<>>
       THEN /\ workers' = [workers EXCEPT ![w] = WorkerAt("top", 0)]
            /\ UNCHANGED task_queue
       ELSE /\ task_queue' = Tail(task_queue)
            /\ workers' = [workers EXCEPT ![w] =
                              IF Head(task_queue) = 0
                              THEN WorkerAt("dead", 0)
                              ELSE WorkerAt("run", Head(task_queue))]
    /\ UNCHANGED <<bpc, max_workers, queue_size, running, result_queue,
                   tasks, to_add, results, next_id, nones_put>>
    /\ UNCHANGED pipeVars
    /\ UNCHANGED timingVars
    /\ UNCHANGED catalogVars
    /\ UNCHANGED scraperVars
    /\ UNCHANGED providerVars
    /\ UNCHANGED cacheVars

\* batch_processor.py:42-57  the task's function returns or raises; one
\* result is put on result_queue; task_done
WorkerRun(w) ==
    /\ workers[w].at = "run"
    /\ \E success \in BOOLEAN :
        result_queue' = Append(result_queue,
                               [id |-> workers[w].task, success |-> success])
    /\ workers' = [workers EXCEPT ![w] = WorkerAt("top", 0)]
    /\ UNCHANGED <<bpc, max_workers, queue_size, running, task_queue,
                   tasks, to_add, results, next_id, nones_put>>
    /\ UNCHANGED pipeVars
    /\ UNCHANGED timingVars
    /\ UNCHANGED catalogVars
    /\ UNCHANGED scraperVars
    /\ UNCHANGED providerVars
    /\ UNCHANGED cacheVars

(***************************************************************************)
(* Result cache: src/utils/cache.py                                        *)
(***************************************************************************)

MaxValues == 1
MaxTicks == 2

\* config/settings.py:29
CACHE_ENABLED == TRUE

\* config/settings.py:30  seconds
CACHE_TTL == 3600

\* cache.py:19-21  every key has its own file and a call touches only the
\* file of its key: the calls looked at are the calls for one key.
CacheKey == {1}

\* What a cached function returns: a JSON value (str, dict), a tuple, an
\* object json cannot serialise (a Path, an Image), or None.
ReturnValue ==
    {[kind |-> k, n |-> n] : k \in {"json", "tuple", "path"},
                             n \in 1..MaxValues}
    \cup {NoneValue}

\* The function raised instead of returning.
Raised == [kind |-> "raised", n |-> 0]

\* cache.py:68  json.dumps(data) raises TypeError for such a value
json_dumps_raises(val) == val.kind = "path"

\* cache.py:41, 68  json.loads(json.dumps(value)): a tuple comes back as a
\* list, JSON values and None come back equal
json_round_trip(val) ==
    IF val.kind = "tuple" THEN [kind |-> "list", n |-> val.n] ELSE val

NoCacheFile == [st |-> "absent", timestamp |-> 0, val |-> NoneValue]
CorruptCacheFile == [st |-> "corrupt", timestamp |-> 0, val |-> NoneValue]

\* What write_text can do: write the whole text, fail before the file is
\* opened, or fail after it was truncated.
CacheWriteOutcome == {"ok", "open_fail", "write_fail"}

\* An entry that has been read is older than the TTL (cache.py:42).
Expired(entry, t) == t - entry.timestamp > CACHE_TTL

\* cache.py:23-49  Cache.get: the value it returns and the files it leaves
Cache_get(files, key, t) ==
    IF ~CACHE_ENABLED THEN [result |-> NoneValue, files |-> files]
    ELSE IF files[key].st = "absent"
    THEN [result |-> NoneValue, files |-> files]
    ELSE IF files[key].st = "corrupt"
    THEN [result |-> NoneValue, files |-> files]
    ELSE IF Expired(files[key], t)
    THEN [result |-> NoneValue,
          files |-> [files EXCEPT ![key] = NoCacheFile]]
    ELSE [result |-> files[key].val, files |-> files]

\* cache.py:51-70  Cache.set: the files it leaves; every exception is
\* caught and logged
Cache_set(files, key, val, t, o) ==
    IF ~CACHE_ENABLED \/ json_dumps_raises(val) \/ o = "open_fail"
    THEN files
    ELSE IF o = "write_fail"
    THEN [files EXCEPT ![key] = CorruptCacheFile]
    ELSE [files EXCEPT ![key] = [st |-> "ok", timestamp |-> t,
                                 val |-> json_round_trip(val)]]

\* A Cache over an empty cache directory (cache.py:15-17, 81). The rest of
\* the program is not looked at.
CacheInit ==
    /\ pc = "idle"
    /\ force = FALSE
    /\ checkpoint = NoStep
    /\ cpFile = "absent"
    /\ art = [s \in Stage |-> "absent"]
    /\ startFile = "absent"
    /\ startArt = [s \in Stage |-> "absent"]
    /\ ran = {}
    /\ skipped = {}
    /\ saveFailed = {}
    /\ failedStage = "none"
    /\ written = {}
    /\ afterComplete = FALSE
    /\ content = FALSE
    /\ tpc = "off"
    /\ script = <<>>
    /\ nImages = 0
    /\ total_duration = RInt(0)
    /\ image_duration = NoneVal
    /\ timings = <<>>
    /\ segment_images = <<>>
    /\ clips = <<>>
    /\ video_duration = RInt(0)
    /\ shown = <<>>
    /\ prepared = <<>>
    /\ timings_again = <<>>
    /\ cpc = "off"
    /\ chapter_dirs = <<>>
    /\ chapter_data = <<>>
    /\ ocr_data = <<>>
    /\ all_images = <<>>
    /\ spc = "off"
    /\ chapter_count = 0
    /\ download_ok = <<>>
    /\ sfile = NoCheckpointFile
    /\ last_completed = 0
    /\ loaded_last = 0
    /\ chapters_to_download = <<>>
    /\ batch_start = 0
    /\ new_failed_chapters = <<>>
    /\ total_successful = 0
    /\ pending = {}
    /\ successful_chapters = <<>>
    /\ downloaded = {}
    /\ reported = "none"
    /\ ppc = "off"
    /\ available = <<>>
    /\ provider = "none"
    /\ provider_name = "None"
    /\ ocr_providers = <<>>
    /\ ocr_outputs = <<>>
    /\ ocr_text = NoText
    /\ bpc = "off"
    /\ max_workers = 0
    /\ queue_size = 0
    /\ running = FALSE
    /\ task_queue = <<>>
    /\ result_queue = <<>>
    /\ workers = <<>>
    /\ tasks = {}
    /\ to_add = <<>>
    /\ results = {}
    /\ next_id = 0
    /\ nones_put = 0
    /\ clock = 0
    /\ ticks = 0
    /\ cache_files = [key \in CacheKey |-> NoCacheFile]
    /\ last_set = [key \in CacheKey |-> NoSet]
    /\ cache_op = NoCacheOp
    /\ set_before = NoSet
    /\ cache_result = NoneValue
    /\ func_executed = FALSE

\* Time passes between two calls: a second, or CACHE_TTL seconds.
Tick ==
    /\ ticks < MaxTicks
    /\ ticks' = ticks + 1
    /\ \E d \in {1, CACHE_TTL} : clock' = clock + d
    /\ UNCHANGED <<cache_files, last_set, cache_op, set_before, cache_result,
                   func_executed>>
    /\ UNCHANGED pipeVars
    /\ UNCHANGED timingVars
    /\ UNCHANGED catalogVars
    /\ UNCHANGED scraperVars
    /\ UNCHANGED providerVars
    /\ UNCHANGED batchVars

\* cache.py:23-49  a call of cache.get(key)
GetCall ==
    /\ \E key \in CacheKey :
        /\ cache_op' = [name |-> "get", key |-> key, time |-> clock]
        /\ set_before' = last_set[key]
        /\ cache_result' = Cache_get(cache_files, key, clock).result
        /\ cache_files' = Cache_get(cache_files, key, clock).files
    /\ func_executed' = FALSE
    /\ UNCHANGED <<clock, ticks, last_set>>
    /\ UNCHANGED pipeVars
    /\ UNCHANGED timingVars
    /\ UNCHANGED catalogVars
    /\ UNCHANGED scraperVars
    /\ UNCHANGED providerVars
    /\ UNCHANGED batchVars

\* cache.py:51-70  a call of cache.set(key, value)
SetCall ==
    /\ \E key \in CacheKey, val \in ReturnValue, o \in CacheWriteOutcome :
        /\ cache_op' = [name |-> "set", key |-> key, time |-> clock]
        /\ set_before' = last_set[key]
        /\ cache_files' = Cache_set(cache_files, key, val, clock, o)
        /\ last_set' = [last_set EXCEPT ![key] =
                           [called |-> TRUE, time |-> clock, val |-> val]]
    /\ cache_result' = NoneValue
    /\ func_executed' = FALSE
    /\ UNCHANGED <<clock, ticks>>
    /\ UNCHANGED pipeVars
    /\ UNCHANGED timingVars
    /\ UNCHANGED catalogVars
    /\ UNCHANGED scraperVars
    /\ UNCHANGED providerVars
    /\ UNCHANGED batchVars

\* cache.py:95-111  a call of a @cached function whose arguments give the
\* key: a hit returns the cached value; otherwise the function is executed
\* and, when it returns, its result is stored and returned.
CachedCall ==
    /\ \E key \in CacheKey, val \in ReturnValue \cup {Raised},
          o \in CacheWriteOutcome :
        LET hit == Cache_get(cache_files, key, clock)
        IN  /\ cache_op' = [name |-> "cached", key |-> key,
                             time |-> clock]
            /\ set_before' = last_set[key]
            /\ IF CACHE_ENABLED /\ hit.result # NoneValue
               THEN /\ cache_result' = hit.result
                    /\ func_executed' = FALSE
                    /\ cache_files' = hit.files
                    /\ UNCHANGED last_set
               ELSE /\ cache_result' = val
                    /\ func_executed' = TRUE
                    /\ IF val = Raised
                       THEN /\ cache_files' = hit.files
                            /\ UNCHANGED last_set
                       ELSE /\ cache_files' =
                                 Cache_set(hit.files, key, val, clock, o)
                            /\ last_set' =
                                 [last_set EXCEPT ![key] =
                                     [called |-> TRUE, time |-> clock,
                                      val |-> val]]
    /\ UNCHANGED <<clock, ticks>>
    /\ UNCHANGED pipeVars
    /\ UNCHANGED timingVars
    /\ UNCHANGED catalogVars
    /\ UNCHANGED scraperVars
    /\ UNCHANGED providerVars
    /\ UNCHANGED batchVars

\* The temp directory is empty and main() has not been invoked; no call of
\* create_video is in progress.
Init ==
    /\ pc = "idle"
    /\ force = FALSE
    /\ checkpoint = NoStep
    /\ cpFile = "absent"
    /\ art = [s \in Stage |-> "absent"]
    /\ startFile = "absent"
    /\ startArt = [s \in Stage |-> "absent"]
    /\ ran = {}
    /\ skipped = {}
    /\ saveFailed = {}
    /\ failedStage = "none"
    /\ written = {}
    /\ afterComplete = FALSE
    /\ content = FALSE
    /\ tpc = "off"
    /\ script = <<>>
    /\ nImages = 0
    /\ total_duration = RInt(0)
    /\ image_duration = NoneVal
    /\ timings = <<>>
    /\ segment_images = <<>>
    /\ clips = <<>>
    /\ video_duration = RInt(0)
    /\ shown = <<>>
    /\ prepared = <<>>
    /\ timings_again = <<>>
    /\ cpc = "off"
    /\ chapter_dirs = <<>>
    /\ chapter_data = <<>>
    /\ ocr_data = <<>>
    /\ all_images = <<>>
    /\ spc = "off"
    /\ chapter_count = 0
    /\ download_ok = <<>>
    /\ sfile = NoCheckpointFile
    /\ last_completed = 0
    /\ loaded_last = 0
    /\ chapters_to_download = <<>>
    /\ batch_start = 0
    /\ new_failed_chapters = <<>>
    /\ total_successful = 0
    /\ pending = {}
    /\ successful_chapters = <<>>
    /\ downloaded = {}
    /\ reported = "none"
    /\ ppc = "off"
    /\ available = <<>>
    /\ provider = "none"
    /\ provider_name = "None"
    /\ ocr_providers = <<>>
    /\ ocr_outputs = <<>>
    /\ ocr_text = NoText
    /\ bpc = "off"
    /\ max_workers = 0
    /\ queue_size = 0
    /\ running = FALSE
    /\ task_queue = <<>>
    /\ result_queue = <<>>
    /\ workers = <<>>
    /\ tasks = {}
    /\ to_add = <<>>
    /\ results = {}
    /\ next_id = 0
    /\ nones_put = 0
    /\ clock = 0
    /\ ticks = 0
    /\ cache_files = <<>>
    /\ last_set = <<>>
    /\ cache_op = NoCacheOp
    /\ set_before = NoSet
    /\ cache_result = NoneValue
    /\ func_executed = FALSE

Next ==
    \/ Start
    \/ OcrStep
    \/ ScriptsStep
    \/ AudioStep
    \/ VideoStep
    \/ RemoveArtifact

Spec == Init /\ [][Next]_vars

TimingNext ==
    \/ PlanTimings
    \/ ComposeVideo
    \/ PlanAgain

TimingSpec == TimingInit /\ [][TimingNext]_vars

CatalogNext ==
    \/ ExtractChapters
    \/ CollectImages

CatalogSpec == CatalogInit /\ [][CatalogNext]_vars

ScraperNext ==
    \/ StartDownload
    \/ SubmitBatch
    \/ FutureCompleted
    \/ MergeBatch
    \/ FinishDownload
    \/ Crash

ScraperSpec == ScraperInit /\ [][ScraperNext]_vars

ProviderNext ==
    \/ SelectProvider
    \/ NewOCRManager
    \/ ExtractText

ProviderSpec == ProviderInit /\ [][ProviderNext]_vars

BatchNext ==
    \/ StartWorkers
    \/ AddTask
    \/ ProcessBatchCall
    \/ PutBatchTask
    \/ CheckEmpty
    \/ GetResult
    \/ StopCall
    \/ StopPut
    \/ StopJoin
    \/ \E w \in 1..Len(workers) : WorkerTest(w)
    \/ \E w \in 1..Len(workers) : WorkerGet(w)
    \/ \E w \in 1..Len(workers) : WorkerRun(w)

BatchSpec == BatchInit /\ [][BatchNext]_vars

\* Every thread that can take a step eventually takes one; what the client
\* calls next (add_task, process_batch, stop) is up to the client.
BatchFairness ==
    /\ WF_vars(PutBatchTask)
    /\ WF_vars(CheckEmpty)
    /\ WF_vars(GetResult)
    /\ WF_vars(StopPut)
    /\ WF_vars(StopJoin)
    /\ \A w \in 1..MaxWorkers :
         /\ WF_vars(w <= Len(workers) /\ WorkerTest(w))
         /\ WF_vars(w <= Len(workers) /\ WorkerGet(w))
         /\ WF_vars(w <= Len(workers) /\ WorkerRun(w))

BatchFairSpec == BatchInit /\ [][BatchNext]_vars /\ BatchFairness

CacheNext ==
    \/ Tick
    \/ GetCall
    \/ SetCall
    \/ CachedCall

CacheSpec == CacheInit /\ [][CacheNext]_vars

(***************************************************************************)
(* Properties                                                              *)
(***************************************************************************)

\* Position of a stage in pipeline order; 0 for anything that is no stage.
Rank(s) ==
    CASE s = "ocr" -> 1
      [] s = "scripts" -> 2
      [] s = "audio" -> 3
      [] s = "video" -> 4
      [] OTHER -> 0

\* The tolerance of the timing plan, 0.1 s.
Tolerance == [n |-> 1, d |-> 10]

WithinTolerance(x, y) == RLe(RAbs(RSub(x, y)), Tolerance)

Positive(x) == RLt(RInt(0), x)

\* The segments of the current script, by word count.
ScriptSegments == SegmentWords(script, 0, <<>>)

\* words / total words * total_duration of segment i of the current script
Share(i) ==
    RDivInt(RMul(RInt(ScriptSegments[i]), total_duration),
            SumSeq(ScriptSegments))

\* C1 (as claimed): every timing plan computed for at least one image and a
\* positive audio duration sums to the audio duration within 0.1 s.
C1_PlanSumsToAudio ==
    (tpc = "planned" /\ nImages >= 1 /\ Positive(total_duration))
        => WithinTolerance(RSum(timings), total_duration)

\* C1 (amended): the plan sums to the audio duration within 0.1 s in the
\* uniform fallback, in fixed mode when image_duration * N exceeds the audio,
\* and in segment mode when there are at least as many images as segments
\* and no segment's share is below 0.5 s; in fixed mode otherwise the sum is
\* image_duration * N, at most the audio duration.
C1_PlanSumByMode ==
    (tpc = "planned" /\ nImages >= 1 /\ Positive(total_duration)) =>
        /\ (image_duration # NoneVal
              /\ RLt(total_duration, RMul(image_duration, RInt(nImages))))
            => WithinTolerance(RSum(timings), total_duration)
        /\ (image_duration # NoneVal
              /\ RLe(RMul(image_duration, RInt(nImages)), total_duration))
            => /\ RSum(timings) = RMul(image_duration, RInt(nImages))
               /\ RLe(RSum(timings), total_duration)
        /\ (image_duration = NoneVal /\ ScriptSegments = <<>>)
            => WithinTolerance(RSum(timings), total_duration)
        /\ (image_duration = NoneVal /\ ScriptSegments # <<>>
              /\ nImages >= Len(ScriptSegments)
              /\ \A i \in 1..Len(ScriptSegments) : RLe(MinSegment, Share(i)))
            => WithinTolerance(RSum(timings), total_duration)

\* A plan in segment mode with two segments and three images, no segment
\* below 0.5 s, that sums to the audio duration.
C1_Witness ==
    /\ tpc = "planned"
    /\ image_duration = NoneVal
    /\ Len(ScriptSegments) = 2
    /\ nImages = 3
    /\ Len(timings) = 3
    /\ Positive(total_duration)
    /\ \A i \in 1..2 : RLe(MinSegment, Share(i))
    /\ RSum(timings) = total_duration

InRun == pc # "idle"

\* C2 (as claimed): a non-forced run that starts from a checkpoint at
\* 'scripts' with narration_scripts.json present invokes neither the OCR
\* stage nor the script generation.
C2_ScriptedResumeSkipsBoth ==
    (InRun /\ ~force /\ startFile = "scripts"
       /\ startArt["scripts"] # "absent")
        => ("ocr" \notin ran /\ "scripts" \notin ran)

\* C2 (amended): a non-forced run that starts from a checkpoint at 'scripts'
\* with both chapter_texts.json and narration_scripts.json present invokes
\* neither the OCR stage nor the script generation.
C2_ScriptedResumeWithBothFiles ==
    (InRun /\ ~force /\ startFile = "scripts"
       /\ startArt["ocr"] # "absent" /\ startArt["scripts"] # "absent")
        => ("ocr" \notin ran /\ "scripts" \notin ran)

\* A completed resume from 'scripts' that ran only the audio and the video.
C2_Witness ==
    /\ pc = "done" /\ ~force
    /\ startFile = "scripts"
    /\ startArt["ocr"] = "ok" /\ startArt["scripts"] = "ok"
    /\ ran = {"audio", "video"}

\* The checkpoint file the run started from names stage s or a later one.
StartCovers(s) == startFile \in Stage /\ Rank(startFile) >= Rank(s)

\* C3: in a non-forced run, a stage the checkpoint covers whose artifact is
\* missing is executed, not skipped, and unless the stage's own call fails
\* its artifact is written and the run goes on.
C3_MissingArtifactRerun ==
    [][\A s \in Stage :
         (pc = s /\ ~force /\ StartCovers(s) /\ art[s] = "absent")
           => /\ s \in ran' /\ s \notin skipped'
              /\ ((failedStage' = "none")
                    => (art'[s] = "ok" /\ pc' # "failed"))
      ]_vars

\* A resume from 'audio' without narration_scripts.json that regenerated it
\* and returned normally.
C3_Witness ==
    /\ pc = "done" /\ ~force
    /\ startFile = "audio"
    /\ startArt["scripts"] = "absent"
    /\ "scripts" \in ran
    /\ art["scripts"] = "ok"

\* C4: in a non-forced run each stage takes the skip branch exactly when the
\* checkpoint read at startup names it or a later stage and its artifact
\* exists, and is executed in every other case.
C4_SkipIffCoveredAndPresent ==
    [][\A s \in Stage :
         (pc = s /\ ~force)
           => /\ ((s \in skipped')
                    <=> (StartCovers(s) /\ art[s] # "absent"))
              /\ ((s \in ran')
                    <=> ~(StartCovers(s) /\ art[s] # "absent"))
      ]_vars

\* A resume from 'video' without narration.mp3: only the audio is executed.
C4_Witness ==
    /\ pc = "done" /\ ~force
    /\ startFile = "video"
    /\ startArt["audio"] = "absent"
    /\ skipped = {"ocr", "scripts", "video"}
    /\ ran = {"audio"}

\* C5 (as claimed): in a non-forced run the last_step in the checkpoint file
\* is never replaced by an earlier stage.
C5_LastStepNeverBackward ==
    [][(pc \in Stage /\ ~force /\ cpFile \in Stage /\ cpFile' \in Stage)
         => Rank(cpFile') >= Rank(cpFile)]_vars

\* C5 (amended): in a non-forced run the last_step in the checkpoint file is
\* replaced by an earlier stage only by a stage that is re-executed because
\* its artifact is missing although the startup checkpoint covers it.
C5_BackwardOnlyOnMissingArtifact ==
    [][(pc \in Stage /\ ~force /\ cpFile \in Stage /\ cpFile' \in Stage
          /\ Rank(cpFile') < Rank(cpFile))
         => (cpFile' = pc /\ art[pc] = "absent" /\ StartCovers(pc))]_vars

\* A resume from 'audio' without chapter_texts.json that has rewritten the
\* checkpoint as 'ocr'.
C5_Witness ==
    /\ pc = "scripts" /\ ~force
    /\ startFile = "audio"
    /\ startArt["ocr"] = "absent"
    /\ "ocr" \in ran
    /\ cpFile = "ocr"

\* Rank of the last stage of this run that was skipped or executed without
\* failing; 0 when there is none.
LastCompletedRank ==
    LET completed == (ran \cup skipped) \ {failedStage}
    IN  IF completed = {} THEN 0
        ELSE CHOOSE r \in {Rank(s) : s \in completed} :
                 \A q \in {Rank(s) : s \in completed} : q <= r

\* C6 (as claimed): when a stage fails (no checkpoint write having failed),
\* no later stage has run and the checkpoint file names the last stage
\* completed in this run, or no stage when none was completed.
C6_FailureLeavesLastGoodCheckpoint ==
    (pc = "failed" /\ failedStage \in Stage /\ saveFailed = {})
        => /\ \A s \in ran \cup skipped : Rank(s) <= Rank(failedStage)
           /\ Rank(cpFile) = LastCompletedRank

\* C7 (as claimed): when main returns normally no checkpoint file remains.
C7_CheckpointDeletedOnSuccess ==
    (pc = "done") => (cpFile = "absent")

\* The stages that have a next stage, and that next stage.
Following(s) ==
    CASE s = "ocr" -> "scripts"
      [] s = "scripts" -> "audio"
      [] s = "audio" -> "video"

C10_ForceRunsEveryStage ==
    (InRun /\ force)
        => /\ skipped = {}
           /\ ((pc = "done") => (ran = Stage))

\* A forced run over a checkpoint at 'video' with every artifact present
\* that executed all four stages.
C10_Witness ==
    /\ pc = "done" /\ force
    /\ startFile = "video"
    /\ \A s \in Stage : startArt[s] = "ok"
    /\ ran = Stage

Planned == tpc \in {"planned", "composed"}

\* The timing plan is the one of the segment loop.
SegmentMode == image_duration = NoneVal /\ ScriptSegments # <<>>

NSegments == Len(ScriptSegments)

\* C11: after the reconciliation the video lasts the audio duration within
\* 0.1 s: a clip stream longer than that is trimmed to the audio duration, a
\* shorter one has its last clip extended by the shortfall.
C11_ReconciledWithinTolerance ==
    (tpc = "composed") =>
        /\ WithinTolerance(video_duration, total_duration)
        /\ RLt(RAdd(total_duration, Tolerance), RSum(timings))
            => video_duration = total_duration
        /\ RLt(RAdd(RSum(timings), Tolerance), total_duration)
            => /\ video_duration = total_duration
               /\ clips[nImages] =
                    RAdd(timings[nImages],
                         RSub(total_duration, RSum(timings)))
               /\ \A i \in 1..(nImages - 1) : clips[i] = timings[i]

\* A composed video whose plan was more than 0.1 s short of a positive audio
\* duration and whose last clip was extended.
C11_Witness ==
    /\ tpc = "composed"
    /\ Positive(total_duration)
    /\ RLt(RAdd(RSum(timings), Tolerance), total_duration)
    /\ video_duration = total_duration
    /\ RLt(timings[nImages], clips[nImages])

\* C12 (as claimed): when the plan is off a positive audio duration by more
\* than 0.1 s, every image is shown in the final video, once and for a
\* positive time.
C12_ReconcileKeepsEveryImage ==
    (tpc = "composed" /\ Positive(total_duration)
       /\ ~WithinTolerance(RSum(timings), total_duration))
        => /\ Len(shown) = nImages
           /\ \A i \in 1..Len(shown) : Positive(shown[i])

\* C13: in segment mode with at least as many images as segments, every
\* segment gets at least N div S images, no segment more than one extra, and
\* the segments with the extra image are exactly the first N mod S.
C13_ImagesPerSegment ==
    (Planned /\ SegmentMode /\ nImages >= NSegments) =>
        /\ Len(segment_images) = NSegments
        /\ \A i \in 1..NSegments :
             /\ segment_images[i] >= nImages \div NSegments
             /\ segment_images[i] <= (nImages \div NSegments) + 1
             /\ (segment_images[i] = (nImages \div NSegments) + 1)
                  <=> (i <= nImages % NSegments)
        /\ Cardinality({i \in 1..NSegments :
                          segment_images[i] = (nImages \div NSegments) + 1})
             = nImages % NSegments

\* Three images over two segments: two for the first, one for the second.
C13_Witness ==
    /\ tpc = "planned"
    /\ SegmentMode
    /\ NSegments = 2
    /\ nImages = 3
    /\ segment_images = <<2, 1>>

\* C14: in every mode the plan has one entry per image, the images given to
\* the segments add up to the images, and the clips are one per image.
C14_OneTimingPerImage ==
    /\ Planned => Len(timings) = nImages
    /\ (Planned /\ SegmentMode) => SumSeq(segment_images) = nImages
    /\ (tpc = "composed") => (Len(clips) = nImages /\ Len(shown) = nImages)

\* A composed video of one image for a script of two segments.
C14_Witness ==
    /\ tpc = "composed"
    /\ SegmentMode
    /\ NSegments = 2
    /\ nImages = 1
    /\ Len(clips) = 1

\* C17 (as claimed): no timing plan is produced for an audio duration that
\* is not positive.
C17_NoPlanForEmptyAudio ==
    (~Positive(total_duration)) => ~Planned

\* C18: in fixed mode every image gets image_duration when image_duration
\* * N fits the audio and total_duration / N otherwise, and the plan is not
\* longer than the audio.
C18_FixedMode ==
    (Planned /\ image_duration # NoneVal) =>
        /\ Len(timings) = nImages
        /\ \A i \in 1..Len(timings) :
             timings[i] =
               IF RLe(RMul(image_duration, RInt(nImages)), total_duration)
               THEN image_duration
               ELSE RDivInt(total_duration, nImages)
        /\ RLe(RSum(timings), total_duration)

\* A fixed duration that does not fit: several images share a positive audio
\* duration.
C18_Witness ==
    /\ tpc = "planned"
    /\ image_duration # NoneVal
    /\ nImages >= 2
    /\ Positive(total_duration)
    /\ RLt(total_duration, RMul(image_duration, RInt(nImages)))
    /\ RSum(timings) = total_duration

\* The segment (1-based) that the k-th entry of the plan belongs to, by the
\* recorded number of images of each segment.
SegmentOf(k) ==
    CHOOSE i \in 1..Len(segment_images) :
        /\ SumSeq(SubSeq(segment_images, 1, i - 1)) < k
        /\ k <= SumSeq(SubSeq(segment_images, 1, i))

\* C19: in segment mode every entry of the plan is the duration of its
\* segment, max(share, 0.5 s), divided by the number of images of the
\* segment.
C19_SegmentMode ==
    (Planned /\ SegmentMode) =>
        /\ Len(timings) = SumSeq(segment_images)
        /\ \A k \in 1..Len(timings) :
             timings[k] =
               RDivInt(RMax(Share(SegmentOf(k)), MinSegment),
                       segment_images[SegmentOf(k)])

\* Two segments and three images, the first segment raised to 0.5 s and
\* split over two images.
C19_Witness ==
    /\ tpc = "planned"
    /\ SegmentMode
    /\ NSegments = 2
    /\ nImages = 3
    /\ RLt(Share(1), MinSegment)
    /\ timings[1] = [n |-> 1, d |-> 4]
    /\ timings[2] = [n |-> 1, d |-> 4]

\* C20: with more segments than images the plan is the durations of the
\* first N segments, one image each; the other segments get no image.
C20_MoreSegmentsThanImages ==
    (Planned /\ SegmentMode /\ NSegments > nImages) =>
        /\ Len(timings) = nImages
        /\ \A k \in 1..nImages :
             timings[k] = RMax(Share(k), MinSegment)
        /\ \A i \in 1..NSegments :
             segment_images[i] = IF i <= nImages THEN 1 ELSE 0

\* One image for two segments of a positive audio duration: the plan is the
\* first segment's duration, short of the audio.
C20_Witness ==
    /\ tpc = "planned"
    /\ SegmentMode
    /\ NSegments = 2
    /\ nImages = 1
    /\ Positive(total_duration)
    /\ Len(timings) = 1
    /\ RLt(timings[1], total_duration)

\* C16: when the video stage is executed and no page has content, the run
\* fails in the video stage, the output file is left as it was and the
\* checkpoint file is not rewritten.
C16_NoContentFailsVideoStage ==
    [][(pc = "video" /\ ~content /\ "video" \in ran')
         => /\ pc' = "failed"
            /\ failedStage' = "video"
            /\ art'["video"] = art["video"]
            /\ cpFile' = cpFile]_vars

\* A first run over chapters without any content: the OCR, scripts and audio
\* stages are done, the video stage failed, there is no output file and the
\* checkpoint stays at 'audio'.
C16_Witness ==
    /\ pc = "failed"
    /\ failedStage = "video"
    /\ ~content
    /\ art["ocr"] = "ok"
    /\ art["video"] = "absent"
    /\ cpFile = "audio"

PageHasContent(page) == page.has_content

\* The pages of the catalog entries from index k on whose record has
\* has_content, as <<chapter, file name>>, in catalog order.
RECURSIVE ContentPages(_, _)
ContentPages(data, k) ==
    IF k > Len(data) THEN <<>>
    ELSE LET pages == SelectSeq(data[k].page_data, PageHasContent)
         IN  [i \in 1..Len(pages) |->
                 <<data[k].chapter_name, pages[i].image_file>>]
             \o ContentPages(data, k + 1)

\* C15: the images collected for the video are the pages of the loaded
\* catalog with has_content, each once, by chapter and then by file name;
\* their number is the sum of the chapters' pages_with_content.
C15_OnlyContentPagesEnter ==
    (cpc \in {"collected", "error"}) =>
        /\ all_images = ContentPages(ocr_data, 1)
        /\ \A i, j \in 1..Len(all_images) :
             (i < j) =>
                \/ all_images[i][1] < all_images[j][1]
                \/ /\ all_images[i][1] = all_images[j][1]
                   /\ all_images[i][2] < all_images[j][2]
        /\ Len(all_images) =
             SumSeq([k \in 1..Len(ocr_data) |->
                        ocr_data[k].pages_with_content])

\* Two chapters of two pages each, one page without content: three images
\* are collected.
C15_Witness ==
    /\ cpc = "collected"
    /\ Len(ocr_data) = 2
    /\ \A k \in 1..2 : ocr_data[k].total_pages = 2
    /\ \E k \in 1..2 : ocr_data[k].pages_with_content = 1
    /\ Len(all_images) = 3

\* C21: when the script has no text segment and no fixed duration is given,
\* every image gets total_duration / N, which is the plan of the segment
\* loop for one segment that lasts the whole audio.
C21_UniformFallback ==
    (Planned /\ image_duration = NoneVal /\ ScriptSegments = <<>>) =>
        /\ Len(timings) = nImages
        /\ \A i \in 1..Len(timings) :
             RMul(timings[i], RInt(nImages)) = total_duration
        /\ timings = SegmentLoop(<<total_duration>>, 1, nImages, 0, <<>>)

\* A script of marker lines only, planned for three images.
C21_Witness ==
    /\ tpc = "planned"
    /\ image_duration = NoneVal
    /\ Len(script) >= 2
    /\ \A i \in 1..Len(script) : script[i].kind \in {"marker", "pause"}
    /\ nImages = 3
    /\ Positive(total_duration)
    /\ Len(timings) = 3

C23_SkippedArtifactUnchanged ==
    /\ \A s \in skipped :
         /\ s \notin written
         /\ (pc \in Stage) => art[s] = startArt[s]
    /\ (/\ ~force
        /\ startFile = "scripts"
        /\ startArt["scripts"] = "ok"
        /\ pc \in {"audio", "video"})
         => /\ "scripts" \in skipped
            /\ "scripts" \notin written
            /\ art["scripts"] = "ok"

\* A resumed run from 'scripts' that has skipped the scripts stage and
\* written the audio.
C23_Witness ==
    /\ pc = "video"
    /\ ~force
    /\ startFile = "scripts"
    /\ startArt["scripts"] = "ok"
    /\ "scripts" \in skipped
    /\ "audio" \in written
    /\ art["scripts"] = "ok"

\* C24: the checkpoint is written only after the stage's output: a step of
\* stage S that leaves the record last_step = S in the checkpoint file
\* (S executed and its save_checkpoint went through, or the file changed to
\* S) also leaves the artifact of S completely written by that step.
C24_CheckpointAfterArtifact ==
    [][\A s \in Stage :
         (/\ pc = s
          /\ s \in ran'
          /\ cpFile' = s
          /\ \/ cpFile # s
             \/ (s \notin saveFailed' /\ failedStage' # s))
            => (art'[s] = "ok" /\ s \in written')]_vars

\* Every stage executed in one invocation, each checkpoint saved, the last
\* record being that of the video stage.
C24_Witness ==
    /\ pc = "done"
    /\ ran = Stage
    /\ saveFailed = {}
    /\ written = Stage
    /\ cpFile = "video"
    /\ \A s \in Stage : art[s] = "ok"

\* The catalog has been built by the OCR stage.
Extracted == cpc \in {"extracted", "collected", "error"}

\* The image files of chapter directory c, as a set of names.
ImageNames(c) == {f \in DOMAIN chapter_dirs[c] : chapter_dirs[c][f].image}

\* The page records of chapter c that list file f.
PagesOf(c, f) ==
    {i \in 1..Len(chapter_data[c].page_data) :
        chapter_data[c].page_data[i].image_file = f}

\* C25: an image whose extraction fails does not abort its chapter: the
\* chapter's entry has one page per image file, total_pages is the number
\* of image files, the failing page holds the error text with has_content
\* false, and every other page holds the text read from its own image.
C25_FailedPageDoesNotAbortChapter ==
    Extracted =>
        /\ Len(chapter_data) = Len(chapter_dirs)
        /\ \A c \in 1..Len(chapter_dirs) :
             /\ chapter_data[c].total_pages = Cardinality(ImageNames(c))
             /\ Len(chapter_data[c].page_data) = Cardinality(ImageNames(c))
             /\ \A f \in ImageNames(c) :
                  /\ Cardinality(PagesOf(c, f)) = 1
                  /\ \A i \in PagesOf(c, f) :
                       LET page == chapter_data[c].page_data[i]
                           o == chapter_dirs[c][f].ocr
                       IN  IF o.raises
                           THEN /\ page.text = ErrorPageText
                                /\ page.has_content = FALSE
                           ELSE page.text =
                                  (IF o.text = "" THEN EmptyPageText
                                   ELSE o.text)

\* A chapter of two images: the first fails, the second is read and has
\* content.
C25_Witness ==
    /\ cpc = "extracted"
    /\ chapter_data[1].total_pages = 2
    /\ chapter_dirs[1][1].ocr.raises
    /\ chapter_data[1].page_data[1].text = ErrorPageText
    /\ chapter_data[1].page_data[2].text = "Hello"
    /\ chapter_data[1].page_data[2].has_content

\* The empty-page and error markers extract_text_from_image returns.
Sentinel == {EmptyPageText, ErrorPageText}

\* C26 (as claimed): in every page record has_content is true exactly when
\* the text is non-empty and is neither the empty-page nor the error
\* marker, and pages_with_content counts the pages with has_content.
C26_HasContentIffNotSentinel ==
    Extracted =>
        \A c \in 1..Len(chapter_data) :
            /\ \A i \in 1..Len(chapter_data[c].page_data) :
                 LET page == chapter_data[c].page_data[i]
                 IN  page.has_content
                        <=> (page.text # "" /\ page.text \notin Sentinel)
            /\ chapter_data[c].pages_with_content =
                 Cardinality({i \in 1..Len(chapter_data[c].page_data) :
                                 chapter_data[c].page_data[i].has_content})

\* C27: within a chapter's entry the page numbers are 1, 2, ... without gap
\* or repetition, given in the sorted order of the file names; the pages
\* are the image files of the directory and no other file; two directories
\* with the same content get the same pages in the same order.
C27_PageNumbersFollowSortedNames ==
    Extracted =>
        /\ \A c \in 1..Len(chapter_data) :
             LET pages == chapter_data[c].page_data
             IN  /\ \A i \in 1..Len(pages) : pages[i].page_number = i
                 /\ \A i, j \in 1..Len(pages) :
                      (i < j) => pages[i].image_file < pages[j].image_file
                 /\ {pages[i].image_file : i \in 1..Len(pages)}
                      = ImageNames(c)
        /\ \A c, d \in 1..Len(chapter_data) :
             (chapter_dirs[c] = chapter_dirs[d])
                => chapter_data[c].page_data = chapter_data[d].page_data

\* Two chapters with the same files, two of them images: both entries list
\* the two images as pages 1 and 2.
C27_Witness ==
    /\ cpc = "extracted"
    /\ Len(chapter_dirs) = 2
    /\ chapter_dirs[1] = chapter_dirs[2]
    /\ Cardinality(DOMAIN chapter_dirs[1]) = MaxFiles
    /\ Cardinality(ImageNames(1)) = 2
    /\ Len(chapter_data[2].page_data) = 2
    /\ chapter_data[2].page_data[2].page_number = 2

\* C28: an image that cannot be loaded or decoded becomes a black frame of
\* the duration computed for it and the render goes on: there is one clip
\* per image, and every clip, black or not, stands at the position of its
\* image with the duration of the plan.
C28_BrokenImageBecomesBlankFrame ==
    (tpc = "composed") =>
        /\ Len(prepared) = nImages
        /\ Len(clips) = nImages
        /\ \A i \in 1..Len(prepared) :
             /\ prepared[i].path = i
             /\ prepared[i].frame \in {"image", "black"}
             /\ prepared[i].duration = timings[i]

\* Three images of which the second cannot be decoded: its clip is a black
\* frame with its positive planned duration.
C28_Witness ==
    /\ tpc = "composed"
    /\ nImages = 3
    /\ prepared[1].frame = "image"
    /\ prepared[2].frame = "black"
    /\ prepared[3].frame = "image"
    /\ Positive(timings[2])
    /\ prepared[2].duration = timings[2]

\* The chapters of the batches that have been merged in this call.
Attempted ==
    {chapters_to_download[p] :
        p \in 1..(IF batch_start <= Len(chapters_to_download)
                  THEN batch_start ELSE Len(chapters_to_download))}

\* The chapters that share a batch with chapter idx in this call.
BatchMates(idx) ==
    {chapters_to_download[q] : q \in
        {q \in 1..Len(chapters_to_download) :
            \E p \in 1..Len(chapters_to_download) :
                /\ chapters_to_download[p] = idx
                /\ (p - 1) \div batch_size = (q - 1) \div batch_size}}

\* C29: the checkpoint data after a batch does not depend on the order in
\* which the downloads of the batch finished: last_completed is the highest
\* of the loaded value and the chapters downloaded with success so far, and
\* new_failed_chapters lists, in increasing order, the failed chapters of
\* the batches in which some chapter succeeded, whatever the completion
\* order recorded in successful_chapters.
C29_MergeIgnoresCompletionOrder ==
    (batch_start > 0) =>
        /\ last_completed =
             Max({loaded_last} \cup {idx \in Attempted : download_ok[idx]})
        /\ Range(new_failed_chapters) =
             {idx \in Attempted :
                 /\ ~download_ok[idx]
                 /\ \E m \in BatchMates(idx) : download_ok[m]}
        /\ \A i, j \in 1..Len(new_failed_chapters) :
             (i < j) => new_failed_chapters[i] < new_failed_chapters[j]
        /\ total_successful =
             Cardinality({idx \in Attempted : download_ok[idx]})

\* A batch of three chapters in which chapter 3 finished before chapter 1
\* and chapter 2 failed: the saved record is last 3, failed <<2>>.
C29_Witness ==
    /\ spc = "batch"
    /\ batch_start = batch_size
    /\ successful_chapters = <<3, 1>>
    /\ last_completed = 3
    /\ new_failed_chapters = <<2>>
    /\ sfile = [st |-> "ok", last |-> 3, failed |-> <<2>>]

\* C30: the AI provider selected is the first of openai, local, silent
\* that is available, and silent when none is; OCRManager.extract_text
\* asks OpenAI Vision, then TrOCR, then Tesseract (those in its list) and
\* returns the stripped text of the first that answers with a text that is
\* not blank, and the empty-page text when each one raises or answers
\* nothing.
C30_FirstAvailableProvider ==
    /\ (ppc # "constructed") =>
         /\ provider \in AIProviderName
         /\ available["openai"] => provider = "openai"
         /\ (~available["openai"] /\ available["local"])
              => provider = "local"
         /\ (~available["openai"] /\ ~available["local"])
              => provider = "silent"
    /\ (ppc \in {"managed", "extracted"}) =>
         /\ ocr_providers[Len(ocr_providers)] = "tesseract"
         /\ \A i, j \in 1..Len(ocr_providers) :
              (i < j) =>
                 \/ ocr_providers[i] = "openai"
                 \/ ocr_providers[i] = "trocr"
                      /\ ocr_providers[j] = "tesseract"
    /\ (ppc = "extracted" /\ ~ocr_text.raised) =>
         LET Answers(i) ==
                 /\ ~ocr_outputs[ocr_providers[i]].raises
                 /\ ocr_outputs[ocr_providers[i]].text \notin {"", " "}
         IN  /\ (\A i \in 1..Len(ocr_providers) : ~Answers(i))
                  => ocr_text.text = EmptyPageText
             /\ \A i \in 1..Len(ocr_providers) :
                  (Answers(i) /\ \A h \in 1..(i - 1) : ~Answers(h))
                     => ocr_text.text =
                          Strip(ocr_outputs[ocr_providers[i]].text)

\* No AI provider but local is available; of the three OCR providers the
\* first raises, the second answers a blank text, and the text of the third
\* is returned stripped.
C30_Witness ==
    /\ ppc = "extracted"
    /\ ~available["openai"]
    /\ available["local"]
    /\ provider = "local"
    /\ ocr_providers = <<"openai", "trocr", "tesseract">>
    /\ ocr_outputs["openai"].raises
    /\ ocr_outputs["trocr"] = [raises |-> FALSE, text |-> " "]
    /\ ocr_outputs["tesseract"] = [raises |-> FALSE, text |-> " B "]
    /\ ocr_text = [raised |-> FALSE, text |-> "B"]

\* C31 (as claimed): in a run without --force no stage is skipped after a
\* stage that was executed: once a stage runs again, every later stage of
\* that run runs again too.
C31_RerunPropagatesDownstream ==
    (~force) =>
        \A s \in ran, t \in skipped : Rank(t) < Rank(s)

StagesBefore(p) ==
    IF p = "done" THEN Stage ELSE {s \in Stage : Rank(s) < Rank(p)}

\* C33: a checkpoint file that does not parse counts as no checkpoint: the
\* run without --force that finds it has the empty record and executes
\* every stage it reaches, from the OCR stage on, whatever files exist.
C33_UnreadableCheckpointStartsOver ==
    (InRun /\ ~force /\ startFile = "partial") =>
        /\ checkpoint = NoStep
        /\ skipped = {}
        /\ (pc \in Stage \cup {"done"}) => ran = StagesBefore(pc)
        /\ (pc = "failed" /\ failedStage # "none")
             => ran = StagesBefore(failedStage) \cup {failedStage}

\* A run that found a truncated checkpoint file and all four artifacts, and
\* executed the four stages.
C33_Witness ==
    /\ pc = "done"
    /\ ~force
    /\ startFile = "partial"
    /\ \A s \in Stage : startArt[s] = "ok"
    /\ ran = Stage
    /\ cpFile = "video"

\* C34 (as claimed): a run without --force that finds chapter_texts.json or
\* narration_scripts.json partially written never takes the skip branch of
\* that stage: it neither loads the partial file nor aborts on it, the
\* stage is executed again.
C34_PartialArtifactRecomputed ==
    \A s \in {"ocr", "scripts"} :
        (InRun /\ ~force /\ startArt[s] = "partial") =>
            /\ s \notin skipped
            /\ (Rank(pc) > Rank(s) \/ pc = "done") => s \in ran

\* The ids of the results that process_batch returned.
ResultIds == {r.id : r \in results}

\* C35: when process_batch has returned, the mapping it returned holds
\* exactly one entry for every task of the batch it was given.
C35_BatchResultsComplete ==
    bpc = "returned" =>
        /\ ResultIds = tasks
        /\ Cardinality(results) = Cardinality(tasks)

\* C36: once stop has been called it returns, with every worker thread
\* terminated, whatever the state it was called in.
C36_StopTerminates ==
    (bpc = "stop_put") ~>
        (bpc = "stopped" /\ \A w \in 1..Len(workers) : workers[w].at = "dead")

\* C37: whenever the scraper checkpoint file holds a saved record, every
\* chapter up to its last_completed_chapter has been downloaded with
\* success or is listed in its failed_chapters; this holds across a crash
\* and a restart.
C37_CheckpointCoversEveryChapter ==
    sfile.st = "ok" =>
        \A idx \in 1..sfile.last :
            idx \in downloaded \/ idx \in Range(sfile.failed)

\* C38: a call that ends reporting that all chapters were downloaded (and
\* deletes the checkpoint) has downloaded every chapter it scheduled.
C38_AllReportedOnlyIfAllDownloaded ==
    reported = "all" =>
        /\ sfile.st = "absent"
        /\ \A idx \in Range(chapters_to_download) : download_ok[idx]

\* The age, at the time of the last operation, of what Cache.set was last
\* called with for the operation's key.
AgeBefore == cache_op.time - set_before.time

\* C39: Cache.get returns the value last stored by Cache.set for the key
\* while its age is at most CACHE_TTL, and None, with the entry removed,
\* once the age exceeds CACHE_TTL; a @cached function is not executed again
\* for the same arguments within the TTL and is executed again after it.
C39_CacheHonoursTtl ==
    /\ (cache_op.name = "get" /\ set_before.called) =>
           IF AgeBefore <= CACHE_TTL
           THEN cache_result = set_before.val
           ELSE /\ cache_result = NoneValue
                /\ cache_files[cache_op.key].st = "absent"
    /\ (cache_op.name = "cached" /\ set_before.called) =>
           (func_executed <=> AgeBefore > CACHE_TTL)

====
